---- MODULE Spec2Model ----
(***************************************************************************)
(* Model of the OpenAuth gateway (cmd/OpenAuth): the HandlerSwitcher, the  *)
(* RouterManager with its /config control endpoint, the rebuild-and-swap   *)
(* of the gin engine in UpdateConfig, and the dispatch of requests through *)
(* the handler chain of the engine they were dispatched against.           *)
(*                                                                         *)
(* Every HTTP request is served by one goroutine (net/http); a goroutine   *)
(* is a process p with a program counter pc[p].  Engines live on a heap    *)
(* (the sequence engines); an engine is identified by its index, which is  *)
(* also the generation of the table.                                       *)
(***************************************************************************)
EXTENDS Integers, Sequences, FiniteSets, TLC

(* ------------------------------ bounds --------------------------------- *)
NumProcs == 2
MaxRequests == 3

Procs == 1..NumProcs
NoProc == 0

(* --------------------------- program constants ------------------------- *)
StatusOK == 200
StatusBadRequest == 400
StatusUnauthorized == 401
StatusForbidden == 403
StatusNotFound == 404
StatusInternalServerError == 500
NoStatus == 0

(* the validator NewRouterManager creates; rm.tokenValidator is never reassigned *)
TokenValidator == "validator"

(* --------------------- configuration documents ------------------------- *)
(* A raw route of a YAML document.  extra is a key of the route mapping    *)
(* that RouteConfig does not declare ("" when there is none).  A request   *)
(* filter is written by its filter_name, which stands for the declared     *)
(* filter: its remote_server, fields_to_send and request_format.           *)
RawRoute(m, p, rfs, cf, ht, extra) ==
    [method |-> m, path |-> p, request_filters |-> rfs, condition_filter |-> cf,
     handler_type |-> ht, extra |-> extra]

RLogin == RawRoute("POST", "/login", <<"otp", "audit">>, "hdr", "login", "")
RSignup == RawRoute("POST", "/signup", <<>>, "", "signup", "")
RVerify == RawRoute("GET", "/verify", <<>>, "hdr", "verify", "")
RLogout == RawRoute("POST", "/logout", <<>>, "", "logout", "")
RControl == RawRoute("POST", "/config", <<>>, "", "signup", "")
RExtra == RawRoute("POST", "/signup", <<>>, "", "signup", "rate_limit_filter")

RawDoc(wf, key, req, routes) ==
    [wellFormed |-> wf, secret_key |-> key, required_fields |-> req, routes |-> routes]

DocMalformed == RawDoc(FALSE, "", <<>>, <<>>)
DocA == RawDoc(TRUE, "k1", <<"role">>, <<RLogin>>)
DocB == RawDoc(TRUE, "k2", <<>>, <<RSignup>>)
DocUnknownHandler == RawDoc(TRUE, "k3", <<"role">>, <<RVerify, RLogout>>)
DocControl == RawDoc(TRUE, "k1", <<>>, <<RControl>>)
DocUnknownFilter == RawDoc(TRUE, "k2", <<>>, <<RExtra>>)

Docs == {DocMalformed, DocA, DocB, DocUnknownHandler, DocControl,
         DocUnknownFilter}

(* the (method, path) pairs requests are sent to *)
Targets == {<<"POST", "/config">>, <<"POST", "/login">>, <<"POST", "/signup">>,
            <<"GET", "/verify">>}

(* configServer.Config as yaml.Unmarshal fills it: keys the struct does not *)
(* declare are dropped                                                      *)
RouteConfig(raw) ==
    [Method |-> raw.method, Path |-> raw.path, RequestFilters |-> raw.request_filters,
     ConditionFilter |-> raw.condition_filter, HandlerType |-> raw.handler_type]

NoConfig == [present |-> FALSE, SecretKey |-> "", RequiredFields |-> <<>>, Routes |-> <<>>]

Unmarshal(doc) ==
    [present |-> TRUE, SecretKey |-> doc.secret_key, RequiredFields |-> doc.required_fields,
     Routes |-> [i \in DOMAIN doc.routes |-> RouteConfig(doc.routes[i])]]

(* jwt.NewJWTManager *)
NoJWTManager == [present |-> FALSE, SecretKey |-> "", RequiredFields |-> <<>>]

(* a NewJWTManager that returns nil *)
NewJWTManager_Nil(secretKey, requiredFields) == NoJWTManager

(* jwt.NewJWTManager: never nil *)
NewJWTManager(secretKey, requiredFields) ==
    [present |-> TRUE, SecretKey |-> secretKey, RequiredFields |-> requiredFields]


(* --------------------------- handler chains ---------------------------- *)
(* A gin.HandlerFunc: its kind, the engine (generation) it was created for *)
(* and what it is bound to (a validator, a filter name).                   *)
H(kind, gen, arg) == [kind |-> kind, gen |-> gen, arg |-> arg]

(* gin.Default(): Logger and Recovery are the engine's global middleware *)
GlobalMiddleware(gen) == <<H("Logger", gen, ""), H("Recovery", gen, "")>>

Route(m, p, chain) == [method |-> m, path |-> p, chain |-> chain]

(* the /config group: AuthMiddleware(validator), then handleConfigUpdate *)
ControlRoutes(gen, validator) ==
    {Route("POST", "/config",
           GlobalMiddleware(gen) \o <<H("AuthMiddleware", gen, validator),
                                      H("handleConfigUpdate", gen, "")>>)}

(* getHandlerByType with the default branch that answers 404 left in *)
getHandlerByType_Default404(handlerType) ==
    CASE handlerType = "signup" -> "handleSignup"
      [] handlerType = "login" -> "handleLogin"
      [] handlerType = "verify" -> "handleVerify"
      [] OTHER -> "NotFound"

(* api.go getHandlerByType: "" stands for the nil handler *)
getHandlerByType(handlerType) ==
    CASE handlerType = "signup" -> "handleSignup"
      [] handlerType = "login" -> "handleLogin"
      [] handlerType = "verify" -> "handleVerify"
      [] OTHER -> ""

Registry == {"signup", "login", "verify"}

(* FilterHandlers without the condition filter *)
FilterHandlers_NoCondition(route, gen) ==
    [i \in DOMAIN route.RequestFilters |-> H("RequestFilter", gen, route.RequestFilters[i])]

(* FilterHandlers whose loop has one variable rf for all iterations: every *)
(* middleware holds &rf and so the filter of the last iteration            *)
FilterHandlers_SharedLoopVar(route, gen) ==
    [i \in DOMAIN route.RequestFilters |->
        H("RequestFilter", gen, route.RequestFilters[Len(route.RequestFilters)])]
    \o (IF route.ConditionFilter # "" THEN <<H("ConditionFilter", gen, route.ConditionFilter)>>
        ELSE <<>>)

(* the handlers UpdateConfig collects for one route, before the final one; *)
(* each iteration of the loop over route.RequestFilters has its own rf     *)
(* (Go 1.22 and later, the toolchain the Dockerfile builds with)           *)
FilterHandlers(route, gen) ==
    [i \in DOMAIN route.RequestFilters |-> H("RequestFilter", gen, route.RequestFilters[i])]
    \o (IF route.ConditionFilter # "" THEN <<H("ConditionFilter", gen, route.ConditionFilter)>>
        ELSE <<>>)

RouteChain(route, gen) ==
    GlobalMiddleware(gen) \o FilterHandlers(route, gen)
    \o <<H(getHandlerByType(route.HandlerType), gen, "")>>

(* gin's Engine.Handle panics when the method and path are already registered *)
Registered(engine, m, p) == \E r \in engine.routes : r.method = m /\ r.path = p

(* gin's Engine.ServeHTTP: the chain of the route matching method and path, *)
(* or the global middleware followed by the 404 answer                     *)
NoRoute(gen) == GlobalMiddleware(gen) \o <<H("NotFound", gen, "")>>

Lookup(engine, gen, m, p) ==
    IF Registered(engine, m, p)
    THEN (CHOOSE r \in engine.routes : r.method = m /\ r.path = p).chain
    ELSE NoRoute(gen)

(* an engine on the heap; src is history: the configuration it is built for *)
Engine(routes, src) == [routes |-> routes, src |-> src]

(* The heap maps the addresses in use to engines.  gin.Default() takes a   *)
(* free address; an engine no variable refers to any more is collected.    *)
(* the RequestFilters of the engines still on the heap *)
ClientsOf(clients, roots) == {c \in clients : c.gen \in roots}
Alloc(heap) == CHOOSE g \in 1..(Cardinality(DOMAIN heap) + 1) : g \notin DOMAIN heap
Collect(heap, roots) == [g \in DOMAIN heap \cap roots |-> heap[g]]

(* ----------------------------- identity gate --------------------------- *)
(* Usernames the TokenReview can report, split at ":" *)
Usernames == {<<"system", "serviceaccount", "default", "oauth-configurator">>,
              <<"system", "serviceaccount", "default", "intruder">>,
              <<"system", "serviceaccount", "default", "oauth-configurator", "x">>,
              <<"admin">>}

(* allow-lists: namespace -> names, as pairs *)
InitialAllowed == {<<"default", "oauth-configurator">>}
AllowLists == {InitialAllowed, {<<"kube-system", "oauth-admin">>}}

(* what a caller presents and what the cluster answers *)
Cred(header, review, username) == [header |-> header, review |-> review, username |-> username]
Creds == {Cred("none", "ok", <<"admin">>), Cred("basic", "ok", <<"admin">>),
          Cred("bearer", "error", <<"admin">>), Cred("bearer", "unauthenticated", <<"admin">>)}
         \cup {Cred("bearer", "ok", u) : u \in Usernames}

(* isAllowedServiceAccount that looks for the name in every namespace *)
isAllowedServiceAccount_AnyNamespace(allowed, namespace, name) ==
    \E e \in allowed : e[2] = name

(* isAllowedServiceAccount: the name is among the names of the namespace *)
isAllowedServiceAccount(allowed, namespace, name) == <<namespace, name>> \in allowed

(* TokenValidator.ValidateToken: <<valid, err>> *)
ValidateToken(allowed, cred) ==
    IF cred.review = "error" THEN <<FALSE, TRUE>>
    ELSE IF cred.review # "ok" THEN <<FALSE, FALSE>>
    ELSE IF ~(Len(cred.username) >= 3 /\ cred.username[1] = "system"
              /\ cred.username[2] = "serviceaccount") THEN <<FALSE, FALSE>>
    ELSE IF Len(cred.username) # 4 THEN <<FALSE, FALSE>>
    ELSE IF ~isAllowedServiceAccount(allowed, cred.username[3], cred.username[4])
         THEN <<FALSE, FALSE>>
    ELSE <<TRUE, FALSE>>

(* AuthMiddleware that aborts only on a bad header *)
AuthMiddleware_NoAbort(allowed, cred) ==
    IF cred.header # "bearer" THEN StatusUnauthorized ELSE NoStatus

(* AuthMiddleware: the status it aborts with, NoStatus when it calls c.Next() *)
AuthMiddleware(allowed, cred) ==
    IF cred.header # "bearer" THEN StatusUnauthorized
    ELSE IF ValidateToken(allowed, cred)[2] THEN StatusInternalServerError
    ELSE IF ~ValidateToken(allowed, cred)[1] THEN StatusUnauthorized
    ELSE NoStatus

(* the identity gate accepts the caller: a bearer credential that the      *)
(* cluster authenticates as an allowed service account                     *)
GateAccepts(allowed, cred) ==
    cred.header = "bearer" /\ ValidateToken(allowed, cred) = <<TRUE, FALSE>>

NoCred == Cred("", "", <<>>)

(* what a caller of the gate taken alone presents: Creds, and principals   *)
(* of another namespace or with a missing part                             *)
GateCreds ==
    Creds \cup {Cred("bearer", "ok", u) :
                  u \in {<<"system", "serviceaccount", "kube-system", "oauth-configurator">>,
                         <<"system", "serviceaccount", "kube-system", "oauth-admin">>,
                         <<"system", "serviceaccount", "default">>,
                         <<"system", "node", "default", "oauth-configurator">>}}

(* the Error texts of the AuthResponse bodies AuthMiddleware aborts with *)
ErrHeader == "invalid authorization header"
ErrValidation == "token validation failed: token review failed"
ErrInvalid == "invalid token or unauthorized service account"

(* what the caller receives: the status and the AuthResponse JSON body *)
Answer(code, authorized, error) ==
    [status |-> code, Authorized |-> authorized, Error |-> error]
NoResponse == Answer(NoStatus, FALSE, "")

(* AuthMiddleware: the answer it aborts with, NoResponse when it calls c.Next() *)
AuthAnswer(allowed, cred) ==
    IF cred.header # "bearer" THEN Answer(StatusUnauthorized, FALSE, ErrHeader)
    ELSE IF ValidateToken(allowed, cred)[2]
         THEN Answer(StatusInternalServerError, FALSE, ErrValidation)
    ELSE IF ~ValidateToken(allowed, cred)[1]
         THEN Answer(StatusUnauthorized, FALSE, ErrInvalid)
    ELSE NoResponse

(* ValidateToken gets as far as calling isAllowedServiceAccount *)
ReachesLookup(cred) ==
    /\ cred.review = "ok"
    /\ Len(cred.username) = 4
    /\ cred.username[1] = "system" /\ cred.username[2] = "serviceaccount"

(* ------------------------------- filters ------------------------------- *)
(* bounds of the filters taken alone *)
MaxLen == 2
MaxKeyLen == 1
MaxConds == 3
MaxFields == 2
MaxChain == 2

StatusCreated == 201

(* strings are sequences of characters *)
Chars == {"a", "b"}
RECURSIVE Strs(_)
Strs(n) ==
    IF n = 0 THEN {<<>>}
    ELSE Strs(n - 1) \cup {Append(t, c) : t \in Strs(n - 1), c \in Chars}

(* strings.HasPrefix, strings.HasSuffix, strings.Contains *)
HasPrefix(t, prefix) == Len(prefix) <= Len(t) /\ SubSeq(t, 1, Len(prefix)) = prefix
HasSuffix(t, suffix) ==
    Len(suffix) <= Len(t) /\ SubSeq(t, Len(t) - Len(suffix) + 1, Len(t)) = suffix
Contains(t, substr) ==
    \E i \in 0..(Len(t) - Len(substr)) : SubSeq(t, i + 1, i + Len(substr)) = substr

(* the Value of a Condition is an interface{}: a string, or what else the  *)
(* YAML document holds there (a number, a list)                            *)
Str(t) == [string |-> TRUE, s |-> t]
NotAString == [string |-> FALSE, s |-> <<>>]

(* a condition as a document declares it, with the key the request value   *)
(* is stored under, and the Condition struct yaml.Unmarshal fills from it: *)
(* the struct has the fields field, operator and value only                *)
RawCondition(field, operator, key, value) ==
    [field |-> field, operator |-> operator, key |-> key, value |-> value]
Condition(field, operator, value) == [Field |-> field, Operator |-> operator, Value |-> value]
ConditionOf(raw) == Condition(raw.field, raw.operator, raw.value)

Fields == {"header", "param", "query", "cookie"}
Operators == {"equals", "contains", "prefix", "suffix", "regex"}
ConditionValues == {Str(t) : t \in Strs(MaxKeyLen)} \cup {NotAString}
RawConditions ==
    {RawCondition(f, o, k, v) :
        f \in Fields, o \in Operators, k \in Strs(MaxKeyLen), v \in ConditionValues}

(* conditions of the longer lists: one that always holds, one that holds   *)
(* for some requests, one that never holds, one that is not a string       *)
ListConditions ==
    {RawCondition("header", "equals", <<>>, Str(<<>>)),
     RawCondition("header", "equals", <<"a">>, Str(<<"a">>)),
     RawCondition("cookie", "equals", <<"a">>, Str(<<"a">>)),
     RawCondition("header", "equals", <<"a">>, NotAString)}

RECURSIVE Lists(_, _)
Lists(S, n) ==
    IF n = 0 THEN {<<>>}
    ELSE Lists(S, n - 1) \cup {Append(l, x) : l \in Lists(S, n - 1), x \in S}

(* a request: at most one header, path parameter or query parameter, and a *)
(* body: a JSON object, JSON that is not an object, bytes that are not     *)
(* JSON, or a body whose read fails                                        *)
FieldNames == {"username", "password", "otp"}
BodyValues == {"v1", "v2"}
EmptyObject == [k \in {} |-> "v1"]
Objects == UNION {[D -> BodyValues] : D \in SUBSET FieldNames}
Request(subject, key, value, kind, body) ==
    [subject |-> subject, key |-> key, value |-> value, kind |-> kind, body |-> body]
NoRequest == Request("", <<>>, <<>>, "", EmptyObject)
MetadataRequests ==
    {Request("", <<>>, <<>>, "object", EmptyObject)}
    \cup {Request(f, k, v, "object", EmptyObject) :
            f \in {"header", "param", "query"}, k \in Strs(MaxKeyLen), v \in Strs(MaxLen)}
BodyRequests ==
    {Request("", <<>>, <<>>, k, EmptyObject) : k \in {"array", "invalid", "unreadable"}}
    \cup {Request("", <<>>, <<>>, "object", b) : b \in Objects}

(* c.Request.Body: the bytes a read of it yields *)
Body(kind, body) == [kind |-> kind, body |-> body]
Drained == Body("empty", EmptyObject)
OriginalBody(r) == Body(r.kind, r.body)

(* RequestFilter.Process leaving the body as GetRawData left it *)
RestoredBody_Consumed(rawData) == Drained

(* RequestFilter.Process: c.Request.Body = io.NopCloser(bytes.NewBuffer(rawData)) *)
RestoredBody(rawData) == rawData

(* c.GetHeader(key), c.Param(key), c.Query(key): "" when there is none *)
RequestValue(r, subject, key) ==
    IF r.subject = subject /\ r.key = key THEN r.value ELSE <<>>

(* evaluateCondition's second switch with equals done as HasPrefix *)
Compare_EqualsAsPrefix(operator, fieldValue, value) ==
    CASE operator = "equals" -> HasPrefix(fieldValue, value)
      [] operator = "contains" -> Contains(fieldValue, value)
      [] operator = "prefix" -> HasPrefix(fieldValue, value)
      [] operator = "suffix" -> HasSuffix(fieldValue, value)
      [] OTHER -> FALSE

(* evaluateCondition's second switch, on condition.Operator *)
Compare(operator, fieldValue, value) ==
    CASE operator = "equals" -> fieldValue = value
      [] operator = "contains" -> Contains(fieldValue, value)
      [] operator = "prefix" -> HasPrefix(fieldValue, value)
      [] operator = "suffix" -> HasSuffix(fieldValue, value)
      [] OTHER -> FALSE

(* evaluateCondition: "true", "false", or "panic" when condition.Value is  *)
(* not a string (the type assertion condition.Value.(string)).  The value  *)
(* is looked up under condition.Value and compared with condition.Value.   *)
evaluateCondition(r, condition) ==
    IF condition.Field \notin {"header", "param", "query"} THEN "false"
    ELSE IF ~condition.Value.string THEN "panic"
    ELSE IF Compare(condition.Operator,
                    RequestValue(r, condition.Field, condition.Value.s),
                    condition.Value.s)
         THEN "true"
    ELSE "false"

(* the loop of ConditionFilter.Process never returning false *)
LoopReturns_Never(result) == FALSE

(* ConditionFilter.Process: if !evaluateCondition(c, condition) { return false, ... } *)
LoopReturns(result) == result = "false"

(* what Process returns: (allow, err), or a panic that unwinds *)
NoCondition == Condition("", "", NotAString)
Err(text, condition) == [present |-> TRUE, text |-> text, condition |-> condition]
Nil == [present |-> FALSE, text |-> "", condition |-> NoCondition]
Return(allow, err) == [returned |-> TRUE, panicked |-> FALSE, allow |-> allow, err |-> err]
Panic == [returned |-> FALSE, panicked |-> TRUE, allow |-> FALSE, err |-> Nil]
NoReturn == [returned |-> FALSE, panicked |-> FALSE, allow |-> FALSE, err |-> Nil]

(* the filters: a ConditionFilter with its declared and its unmarshalled   *)
(* conditions, a RequestFilter with its remote server, headers and fields  *)
FilterOf(kind, decl, server, format, fields) ==
    [kind |-> kind, decl |-> decl, Conditions |-> [i \in DOMAIN decl |-> ConditionOf(decl[i])],
     RemoteServer |-> server, RequestFormat |-> format, FieldsToSend |-> fields]
NoFilter == FilterOf("", <<>>, "", "", <<>>)
ConditionFilters ==
    {FilterOf("ConditionFilter", <<c>>, "", "", <<>>) : c \in RawConditions}
    \cup {FilterOf("ConditionFilter", l, "", "", <<>>) : l \in Lists(ListConditions, MaxConds)}
RequestFilters ==
    {FilterOf("RequestFilter", <<>>, srv[1], srv[2], l) :
        srv \in {<<"http://otp", "json">>, <<"http://audit", "form">>, <<"://otp", "json">>},
        l \in Lists(FieldNames, MaxFields)}

(* RequestFilter.Process forwarding the whole body *)
filteredBody_Whole(requestBody, fields) == requestBody

(* RequestFilter.Process: the fields of FieldsToSend that exist in the body *)
filteredBody(requestBody, fields) ==
    [k \in DOMAIN requestBody \cap {fields[i] : i \in DOMAIN fields} |-> requestBody[k]]

(* http.NewRequest("POST", rf.RemoteServer, ...) fails on a URL that does   *)
(* not parse                                                               *)
NewRequestFails(url) == url = "://otp"

(* the POST RequestFilter.Process sends *)
Outbound(rf, body) == [url |-> rf.RemoteServer, headers |-> rf.RequestFormat, body |-> body]

(* what comes back from the remote server: a transport error or timeout,   *)
(* or a status with a body that decodes or not and may carry allow         *)
Upstream(err, code, decodes, allow) ==
    [err |-> err, code |-> code, decodes |-> decodes, allow |-> allow]
Upstreams ==
    {Upstream(TRUE, NoStatus, FALSE, FALSE)}
    \cup {Upstream(FALSE, code, d, a) :
            code \in {StatusOK, StatusCreated, StatusForbidden, StatusInternalServerError},
            d \in BOOLEAN, a \in BOOLEAN}

NoUpstream == Upstream(FALSE, NoStatus, FALSE, FALSE)

(* RequestFilter.Process calling client.Do again when it returned an error *)
SendsAgain_OnError(up) == up.err

(* RequestFilter.Process: client.Do is called once, outside any loop, and  *)
(* Process returns on its error                                            *)
SendsAgain(up) == FALSE

(* RequestFilter.Process refusing with a nil error *)
RequestFilterReturn_NilError(up) ==
    IF ~up.err /\ (up.code = StatusOK \/ up.code = StatusCreated) /\ up.decodes
    THEN Return(TRUE, Nil)
    ELSE Return(FALSE, Nil)

(* RequestFilter.Process after client.Do *)
RequestFilterReturn(up) ==
    IF up.err THEN Return(FALSE, Err("error sending request", NoCondition))
    ELSE IF up.code = StatusOK \/ up.code = StatusCreated
         THEN IF up.decodes THEN Return(TRUE, Nil)
              ELSE Return(FALSE, Err("failed to decode response", NoCondition))
    ELSE Return(FALSE, Err("request not allowed (non-200 status code)", NoCondition))

(* ------------------------------ the tokens ------------------------------ *)
(* Time is counted in ticks, TicksPerSecond of them to the second, so that *)
(* the clock is finer than the seconds a NumericDate keeps.                *)
TicksPerSecond == 2
MaxAdvances == 3
MaxRequired == 2

(* JWTManager.Expiry: 24 * time.Hour *)
Expiry == 24 * 3600 * TicksPerSecond

(* jwt.NewNumericDate: the time truncated to the second; a nil *NumericDate *)
NumericDate(t) == t - (t % TicksPerSecond)
NoDate == 0 - 1

SecretKeys == {"k1", "k2"}
ClaimFields == {"username", "role"}
(* JWTConfig.Expiry, the expiry of jwt_config, and the duration it writes *)
Expiries == {"24h", "1h"}
Duration(expiry) ==
    IF expiry = "1h" THEN 3600 * TicksPerSecond ELSE 24 * 3600 * TicksPerSecond

(* JWTConfig, the jwt_config of a configuration *)
JWTConfigs ==
    [SecretKey : SecretKeys, Expiry : Expiries,
     RequiredFields : Lists(ClaimFields, MaxRequired)]

(* UpdateConfig: jwt.NewJWTManager(newConfig.JWTConfig.SecretKey,          *)
(* newConfig.JWTConfig.RequiredFields)                                     *)
ManagerOf(jwtConfig) == NewJWTManager(jwtConfig.SecretKey, jwtConfig.RequiredFields)

Managers == {ManagerOf(c) : c \in JWTConfigs}

(* a value of the map GenerateToken is given: a string, a value that is    *)
(* not a string (a number, null), or no entry under that key               *)
Field(str) == [exists |-> TRUE, string |-> TRUE, s |-> str]
NonString == [exists |-> TRUE, string |-> FALSE, s |-> ""]
Absent == [exists |-> FALSE, string |-> FALSE, s |-> ""]
Data ==
    [username : {Absent, Field("alice"), NonString},
     role : {Absent, Field(""), Field("admin"), NonString}]
NoData == [username |-> Absent, role |-> Absent]

(* CustomClaims: Role and the RegisteredClaims the code sets *)
Claims(sub, role, iss, iat, nbf, exp) ==
    [Subject |-> sub, Role |-> role, Issuer |-> iss, IssuedAt |-> iat, NotBefore |-> nbf,
     ExpiresAt |-> exp]
NoClaims == Claims("", "", "", NoDate, NoDate, NoDate)

(* a token string: what its header and payload decode to and the secret    *)
(* its signature was made with; Malformed does not parse as a JWT          *)
Token(alg, key, claims) ==
    [present |-> TRUE, wellformed |-> TRUE, alg |-> alg, key |-> key, claims |-> claims]
Malformed ==
    [present |-> TRUE, wellformed |-> FALSE, alg |-> "", key |-> "", claims |-> NoClaims]
NoToken ==
    [present |-> FALSE, wellformed |-> FALSE, alg |-> "", key |-> "", claims |-> NoClaims]

(* what GenerateToken and ValidateToken give back: a token or claims with  *)
(* a nil error, nil claims with a nil error, an error, or a panic          *)
Result(kind, token, claims, err) ==
    [kind |-> kind, token |-> token, claims |-> claims, err |-> err]
NoResult == Result("", NoToken, NoClaims, "")

(* GenerateToken: the loop over m.RequiredFields *)
MissingRequired(m, data) ==
    {i \in DOMAIN m.RequiredFields : ~data[m.RequiredFields[i]].exists}

(* GenerateToken setting ExpiresAt without adding m.Expiry *)
ExpiresAt_NoExpiry(currentTime) == NumericDate(currentTime)

(* GenerateToken: ExpiresAt: jwt.NewNumericDate(currentTime.Add(m.Expiry)) *)
ExpiresAt(currentTime) == NumericDate(currentTime + Expiry)

(* JWTManager.GenerateToken, currentTime being its one time.Now() *)
GenerateToken(m, data, currentTime) ==
    IF MissingRequired(m, data) # {}
    THEN Result("error", NoToken, NoClaims, "missing required field")
    ELSE IF ~data.role.string \/ ~data.username.string
    THEN Result("panic", NoToken, NoClaims, "")
    ELSE Result("ok",
                Token("HS256", m.SecretKey,
                      Claims(data.username.s, data.role.s, "OpenAuth",
                             NumericDate(currentTime), NumericDate(currentTime),
                             ExpiresAt(currentTime))),
                NoClaims, "")

(* the key function ValidateToken gives jwt.ParseWithClaims: any method of *)
(* type *jwt.SigningMethodHMAC                                             *)
SigningMethodHMAC == {"HS256", "HS384", "HS512"}
Algs == SigningMethodHMAC \cup {"none", "RS256"}

(* jwt.ParseWithClaims: the error it returns, "" when there is none: the   *)
(* token parses, the key function accepts its method, the signature        *)
(* verifies under m.SecretKey, and exp, nbf and iat, where present, hold   *)
ParseWithClaims(m, token, now) ==
    IF ~token.wellformed THEN "token is malformed"
    ELSE IF token.alg \notin SigningMethodHMAC THEN "unexpected signing method"
    ELSE IF token.key # m.SecretKey THEN "signature is invalid"
    ELSE IF token.claims.ExpiresAt # NoDate /\ ~(now < token.claims.ExpiresAt)
         THEN "token is expired"
    ELSE IF token.claims.NotBefore # NoDate /\ now < token.claims.NotBefore
         THEN "token is not valid yet"
    ELSE IF token.claims.IssuedAt # NoDate /\ now < token.claims.IssuedAt
         THEN "token used before issued"
    ELSE ""

(* ValidateToken: the loop over m.RequiredFields from its i-th field on *)
RECURSIVE RequiredLoop(_, _, _)
RequiredLoop(fields, claims, i) ==
    IF i > Len(fields) THEN Result("ok", NoToken, claims, "")
    ELSE IF fields[i] = "role"
         THEN IF claims.Role = ""
              THEN Result("error", NoToken, NoClaims, "missing required field: role")
              ELSE RequiredLoop(fields, claims, i + 1)
    ELSE Result("nil", NoToken, NoClaims, "")

(* JWTManager.ValidateToken at the time now *)
JWTManager_ValidateToken(m, token, now) ==
    LET err == ParseWithClaims(m, token, now)
    IN IF err # "" THEN Result("error", NoToken, NoClaims, err)
       ELSE IF token.claims.ExpiresAt = NoDate THEN Result("panic", NoToken, NoClaims, "")
       ELSE IF now > token.claims.ExpiresAt
            THEN Result("error", NoToken, NoClaims, "token is expired")
       ELSE RequiredLoop(m.RequiredFields, token.claims, 1)

(* the tokens a client can present in place of a token it was given: the   *)
(* same claims under another algorithm or another secret, without exp, or  *)
(* a string that is no JWT                                                 *)
Variants(token) ==
    {[token EXCEPT !.alg = a] : a \in Algs \ {token.alg}}
    \cup {[token EXCEPT !.key = k] : k \in SecretKeys \ {token.key}}
    \cup {[token EXCEPT !.claims.ExpiresAt = NoDate]}
    \cup {Malformed}

NoCall == [op |-> "", at |-> 0, m |-> NoJWTManager, data |-> NoData, result |-> NoResult]
NoOrigin == [data |-> NoData, token |-> NoToken]

(* ------------------------------- state --------------------------------- *)
VARIABLES
    hs_handler,     \* HandlerSwitcher.handler: index of the live engine
    hs_readers,     \* goroutines holding HandlerSwitcher.mu for reading
    hs_writer,      \* goroutine holding HandlerSwitcher.mu for writing
    rm_mu,          \* goroutine holding RouterManager.mu
    rm_engine,      \* RouterManager.engine
    rm_config,      \* RouterManager.config
    rm_jwtManager,  \* RouterManager.jwtManager
    tv_allowed,     \* TokenValidator.config.AllowedAccounts
    engines,        \* the heap of gin engines
    pc,             \* position of each goroutine
    req,            \* the request a goroutine serves
    handler,        \* ServeHTTP's local handler
    chain,          \* gin.Context.handlers
    idx,            \* gin.Context.index (1-based position of the next handler)
    ran,            \* handlers that have run for the request (history)
    status,         \* status written to the response
    newConfig,      \* handleConfigUpdate's newConfig
    newEngine,      \* UpdateConfig's newEngine
    ri,             \* UpdateConfig's position in newConfig.Routes
    hist,           \* per request history: gate and filter verdicts, body read, state before
    nreq,           \* requests accepted so far
    rf_client,      \* the RequestFilters whose client field has been set
    v_pc,           \* position of each goroutine inside AuthMiddleware / ValidateToken
    v_cred,         \* the credential AuthMiddleware is validating
    v_seen,         \* the AllowedAccounts map isAllowedServiceAccount read
    v_resp,         \* what AuthMiddleware answered
    u_pc,           \* position of the goroutine calling UpdateAllowedAccounts
    u_accounts,     \* UpdateAllowedAccounts' argument
    f_pc,           \* position inside a filter's Process
    f_filter,       \* the filter whose Process runs (the receiver)
    f_req,          \* the request in the gin.Context passed to Process
    f_i,            \* ConditionFilter.Process: index of the loop over cf.Conditions
    f_evaluated,    \* conditions evaluateCondition has been called on (history)
    f_sent,         \* requests RequestFilter.Process has sent to the remote server
    f_ret,          \* what Process returned
    f_up,           \* what client.Do returned to RequestFilter.Process
    f_body,         \* c.Request.Body: what the next read of the body yields
    f_reads,        \* what each read of the body has yielded (history)
    f_n,            \* request filters that have processed the request
    j_mgr,          \* the JWTManager
    j_clock,        \* time.Now(), in ticks
    j_adv,          \* advances of the clock so far
    j_token,        \* the token the client holds
    j_origin,       \* the token GenerateToken last returned and its input (history)
    j_call          \* the last call of GenerateToken or ValidateToken and its result

vars == <<hs_handler, hs_readers, hs_writer, rm_mu, rm_engine, rm_config, rm_jwtManager,
          tv_allowed, engines, pc, req, handler, chain, idx, ran, status, newConfig,
          newEngine, ri, hist, nreq, rf_client, v_pc, v_cred, v_seen, v_resp, u_pc, u_accounts,
          f_pc, f_filter, f_req, f_i, f_evaluated, f_sent, f_ret, f_up, f_body, f_reads,
          f_n, j_mgr, j_clock, j_adv, j_token, j_origin, j_call>>

(* the gateway's own variables, and those of the components taken alone *)
server == <<hs_handler, hs_readers, hs_writer, rm_mu, rm_engine, rm_config, rm_jwtManager,
            engines, pc, req, handler, chain, idx, ran, status, newConfig, newEngine, ri,
            hist, nreq, rf_client>>
gate == <<v_pc, v_cred, v_seen, v_resp, u_pc, u_accounts>>
filt == <<f_pc, f_filter, f_req, f_i, f_evaluated, f_sent, f_ret, f_up, f_body, f_reads,
          f_n>>
jwtm == <<j_mgr, j_clock, j_adv, j_token, j_origin, j_call>>
units == <<gate, filt, jwtm>>

shared == <<hs_handler, hs_readers, hs_writer, rm_mu, rm_engine, rm_config, rm_jwtManager,
            tv_allowed, engines, rf_client>>

NoReq == [method |-> "", path |-> ""]
NoEngine == 0

(* what the program's persistent state is when a request reaches a point *)
Persistent == [live |-> hs_handler, table |-> engines[hs_handler].routes,
               config |-> rm_config, jwt |-> rm_jwtManager, allowed |-> tv_allowed]

NoHist == [gate |-> FALSE, bodyRead |-> FALSE, doc |-> DocMalformed, outcome |-> "",
           verdicts |-> <<>>, issuer |-> NoJWTManager,
           before |-> [live |-> 0, table |-> {}, config |-> NoConfig,
                       jwt |-> NoJWTManager, allowed |-> {}]]

(* NewRouterManager and StartServer: the bare engine with the /config route *)
Init ==
    /\ engines = [g \in {1} |-> Engine(ControlRoutes(1, TokenValidator), NoConfig)]
    /\ rm_engine = 1
    /\ hs_handler = 1
    /\ hs_readers = {}
    /\ hs_writer = NoProc
    /\ rm_mu = NoProc
    /\ rm_config = NoConfig
    /\ rm_jwtManager = NoJWTManager
    /\ tv_allowed = InitialAllowed
    /\ pc = [p \in Procs |-> "idle"]
    /\ req = [p \in Procs |-> NoReq]
    /\ handler = [p \in Procs |-> NoEngine]
    /\ chain = [p \in Procs |-> <<>>]
    /\ idx = [p \in Procs |-> 0]
    /\ ran = [p \in Procs |-> <<>>]
    /\ status = [p \in Procs |-> NoStatus]
    /\ newConfig = [p \in Procs |-> NoConfig]
    /\ newEngine = [p \in Procs |-> NoEngine]
    /\ ri = [p \in Procs |-> 0]
    /\ hist = [p \in Procs |-> NoHist]
    /\ nreq = 0
    /\ rf_client = {}
    /\ v_pc = [p \in Procs |-> "idle"]
    /\ v_cred = [p \in Procs |-> NoCred]
    /\ v_seen = [p \in Procs |-> {}]
    /\ v_resp = [p \in Procs |-> NoResponse]
    /\ u_pc = "idle"
    /\ u_accounts = {}
    /\ f_pc = "idle"
    /\ f_filter = NoFilter
    /\ f_req = NoRequest
    /\ f_i = 0
    /\ f_evaluated = <<>>
    /\ f_sent = <<>>
    /\ f_ret = NoReturn
    /\ f_up = NoUpstream
    /\ f_body = Drained
    /\ f_reads = <<>>
    /\ f_n = 0
    /\ j_mgr = NoJWTManager
    /\ j_clock = 0
    /\ j_adv = 0
    /\ j_token = NoToken
    /\ j_origin = NoOrigin
    /\ j_call = NoCall


(* ------------------------------ dispatch ------------------------------- *)
Set(f, p, v) == [f EXCEPT ![p] = v]

(* net/http accepts a request and starts a goroutine for it *)
Accept(p) ==
    /\ pc[p] = "idle"
    /\ nreq < MaxRequests
    /\ \E t \in Targets : req' = Set(req, p, [method |-> t[1], path |-> t[2]])
    /\ nreq' = nreq + 1
    /\ pc' = Set(pc, p, "serve")
    /\ UNCHANGED <<shared, handler, chain, idx, ran, status, newConfig, newEngine, ri,
                   hist>>
    /\ UNCHANGED units

(* HandlerSwitcher.ServeHTTP: hs.mu.RLock(); handler := hs.handler *)
ServeRLock(p) ==
    /\ pc[p] = "serve"
    /\ hs_writer = NoProc
    /\ hs_readers' = hs_readers \cup {p}
    /\ handler' = Set(handler, p, hs_handler)
    /\ pc' = Set(pc, p, "runlock")
    /\ UNCHANGED <<hs_handler, hs_writer, rm_mu, rm_engine, rm_config, rm_jwtManager,
                   tv_allowed, engines, req, chain, idx, ran, status, newConfig,
                   newEngine, ri, hist, nreq>>
    /\ UNCHANGED rf_client
    /\ UNCHANGED units

(* ServeHTTP with the unlock deferred to its return *)
RUnlock_Deferred(readers, p) == readers

(* hs.mu.RUnlock() *)
RUnlock(readers, p) == readers \ {p}

(* HandlerSwitcher.ServeHTTP: hs.mu.RUnlock() *)
ServeRUnlock(p) ==
    /\ pc[p] = "runlock"
    /\ hs_readers' = RUnlock(hs_readers, p)
    /\ pc' = Set(pc, p, "engine")
    /\ UNCHANGED <<hs_handler, hs_writer, rm_mu, rm_engine, rm_config, rm_jwtManager,
                   tv_allowed, engines, req, handler, chain, idx, ran, status, newConfig,
                   newEngine, ri, hist, nreq>>
    /\ UNCHANGED rf_client
    /\ UNCHANGED units

(* ServeHTTP reading hs.handler again after the unlock *)
ServingEngine_Live(p) == hs_handler

(* the engine ServeHTTP's last line serves the request with *)
ServingEngine(p) == handler[p]

(* handler.ServeHTTP(w, r): gin finds the route's chain and runs Logger and *)
(* Recovery, which call c.Next()                                           *)
EngineServe(p) ==
    /\ pc[p] = "engine"
    /\ LET g == ServingEngine(p)
           c == Lookup(engines[g], g, req[p].method, req[p].path)
       IN /\ chain' = Set(chain, p, c)
          /\ ran' = Set(ran, p, SubSeq(c, 1, 2))
          /\ idx' = Set(idx, p, 3)
    /\ pc' = Set(pc, p, "chain")
    /\ UNCHANGED <<shared, req, handler, status, newConfig, newEngine, ri, hist, nreq>>
    /\ UNCHANGED units

Next_(p) == chain[p][idx[p]]
AtHandler(p, kinds) == pc[p] = "chain" /\ idx[p] <= Len(chain[p]) /\ Next_(p).kind \in kinds

(* a handler ends the request: c.Abort..., or the last handler returns *)
Respond(p, code) ==
    /\ status' = Set(status, p, code)
    /\ ran' = Set(ran, p, Append(ran[p], Next_(p)))
    /\ pc' = Set(pc, p, "done")

(* a middleware calls c.Next() *)
Continue(p) ==
    /\ ran' = Set(ran, p, Append(ran[p], Next_(p)))
    /\ idx' = Set(idx, p, idx[p] + 1)
    /\ UNCHANGED status

(* no route matches: gin answers 404 *)
NotFound(p) ==
    /\ AtHandler(p, {"NotFound"})
    /\ Respond(p, StatusNotFound)
    /\ UNCHANGED <<shared, req, handler, chain, idx, newConfig, newEngine, ri, hist,
                   nreq>>
    /\ UNCHANGED units

(* k8sQuery.AuthMiddleware on the /config group *)
Auth(p) ==
    /\ AtHandler(p, {"AuthMiddleware"})
    /\ \E cred \in Creds :
         LET code == AuthMiddleware(tv_allowed, cred)
         IN IF code = NoStatus
            THEN /\ Continue(p)
                 /\ hist' = Set(hist, p, [hist[p] EXCEPT !.gate = GateAccepts(tv_allowed, cred)])
                 /\ pc' = pc
            ELSE /\ Respond(p, code)
                 /\ hist' = Set(hist, p, [hist[p] EXCEPT !.outcome = "rejected",
                                                          !.before = Persistent])
                 /\ idx' = idx
    /\ UNCHANGED <<shared, req, handler, chain, newConfig, newEngine, ri, nreq>>
    /\ UNCHANGED units

(* RequestFilter.Process: if rf.client == nil, read without a lock *)
ClientCheck(p) ==
    /\ AtHandler(p, {"RequestFilter"})
    /\ Next_(p) \notin rf_client
    /\ pc' = Set(pc, p, "rf_init")
    /\ UNCHANGED <<shared, req, handler, chain, idx, ran, status, newConfig, newEngine, ri,
                   hist, nreq>>
    /\ UNCHANGED units

(* RequestFilter.Process: rf.client = &http.Client{...}, written without a *)
(* lock                                                                    *)
ClientInit(p) ==
    /\ pc[p] = "rf_init"
    /\ rf_client' = rf_client \cup {Next_(p)}
    /\ pc' = Set(pc, p, "rf_send")
    /\ UNCHANGED <<hs_handler, hs_readers, hs_writer, rm_mu, rm_engine, rm_config,
                   rm_jwtManager, tv_allowed, engines, req, handler, chain, idx, ran, status,
                   newConfig, newEngine, ri, hist, nreq>>
    /\ UNCHANGED units

(* what a filter's Process returns: (true, nil) or (false, an error) *)
FilterOutcomes == {[ret |-> TRUE, err |-> FALSE], [ret |-> FALSE, err |-> TRUE]}

(* a filter middleware that calls c.Next() whatever Process returned *)
MiddlewareNext_Always(o) == TRUE

(* the filter middlewares: if ret && (err == nil) { c.Next() } *)
MiddlewareNext(o) == o.ret /\ ~o.err

(* a RequestFilter or ConditionFilter middleware: the filter's verdict     *)
(* depends on the request and, for a RequestFilter, on the remote server   *)
Filter(p) ==
    /\ \/ AtHandler(p, {"ConditionFilter"})
       \/ AtHandler(p, {"RequestFilter"}) /\ Next_(p) \in rf_client
       \/ pc[p] = "rf_send"
    /\ \E o \in FilterOutcomes :
         /\ IF MiddlewareNext(o) THEN Continue(p) /\ pc' = Set(pc, p, "chain")
            ELSE Respond(p, StatusForbidden) /\ idx' = idx
         /\ hist' = Set(hist, p, [hist[p] EXCEPT !.verdicts = Append(@, o.ret)])
    /\ UNCHANGED <<shared, req, handler, chain, newConfig, newEngine, ri, nreq>>
    /\ UNCHANGED units

(* api.go handleSignup *)
Signup(p) ==
    /\ AtHandler(p, {"handleSignup"})
    /\ Respond(p, StatusOK)
    /\ UNCHANGED <<shared, req, handler, chain, idx, newConfig, newEngine, ri, hist,
                   nreq>>
    /\ UNCHANGED units

(* api.go handleLogin and handleVerify: the body binds or not (400), then  *)
(* rm.jwtManager is read, without a lock, and used: a nil manager panics   *)
(* and Recovery answers 500                                                *)
TokenHandler(p) ==
    /\ AtHandler(p, {"handleLogin", "handleVerify"})
    /\ \E bound \in BOOLEAN, good \in BOOLEAN :
         /\ Respond(p, IF ~bound THEN StatusBadRequest
                       ELSE IF ~rm_jwtManager.present THEN StatusInternalServerError
                       ELSE IF good THEN StatusOK
                       ELSE IF Next_(p).kind = "handleLogin" THEN StatusInternalServerError
                       ELSE StatusUnauthorized)
         /\ hist' = Set(hist, p, [hist[p] EXCEPT !.issuer = IF bound THEN rm_jwtManager
                                                            ELSE NoJWTManager])
    /\ UNCHANGED <<shared, req, handler, chain, idx, newConfig, newEngine, ri, nreq>>
    /\ UNCHANGED units

(* the goroutine ends *)
Finish(p) ==
    /\ pc[p] = "done"
    /\ pc' = Set(pc, p, "idle")
    /\ req' = Set(req, p, NoReq)
    /\ handler' = Set(handler, p, NoEngine)
    /\ chain' = Set(chain, p, <<>>)
    /\ idx' = Set(idx, p, 0)
    /\ ran' = Set(ran, p, <<>>)
    /\ status' = Set(status, p, NoStatus)
    /\ newConfig' = Set(newConfig, p, NoConfig)
    /\ newEngine' = Set(newEngine, p, NoEngine)
    /\ ri' = Set(ri, p, 0)
    /\ hist' = Set(hist, p, NoHist)
    /\ engines' = Collect(engines, {hs_handler, rm_engine}
                                   \cup {handler[q] : q \in Procs \ {p}}
                                   \cup {newEngine[q] : q \in Procs \ {p}})
    /\ UNCHANGED <<hs_handler, hs_readers, hs_writer, rm_mu, rm_engine, rm_config,
                   rm_jwtManager, tv_allowed, nreq>>
    /\ rf_client' = ClientsOf(rf_client, {hs_handler, rm_engine}
                                          \cup {handler[q] : q \in Procs \ {p}}
                                          \cup {newEngine[q] : q \in Procs \ {p}})
    /\ UNCHANGED units


(* --------------------------- the control plane ------------------------- *)
(* yaml.Unmarshal whose error is ignored *)
UnmarshalFails_Never(doc) == FALSE

(* yaml.Unmarshal returns an error for a document that is not well formed *)
UnmarshalFails(doc) == ~doc.wellFormed

(* handleConfigUpdate up to the call of UpdateConfig: ioutil.ReadAll, then *)
(* yaml.Unmarshal; either failure answers 400                              *)
ReadConfig(p) ==
    /\ AtHandler(p, {"handleConfigUpdate"})
    /\ \/ /\ status' = Set(status, p, StatusBadRequest)
          /\ ran' = Set(ran, p, Append(ran[p], Next_(p)))
          /\ hist' = Set(hist, p, [hist[p] EXCEPT !.bodyRead = TRUE,
                                                   !.outcome = "unreadable",
                                                   !.before = Persistent])
          /\ pc' = Set(pc, p, "done")
          /\ UNCHANGED newConfig
       \/ \E doc \in Docs :
            IF UnmarshalFails(doc)
            THEN /\ status' = Set(status, p, StatusBadRequest)
                 /\ ran' = Set(ran, p, Append(ran[p], Next_(p)))
                 /\ hist' = Set(hist, p, [hist[p] EXCEPT !.bodyRead = TRUE, !.doc = doc,
                                                          !.outcome = "unparsable",
                                                          !.before = Persistent])
                 /\ pc' = Set(pc, p, "done")
                 /\ UNCHANGED newConfig
            ELSE /\ newConfig' = Set(newConfig, p, Unmarshal(doc))
                 /\ hist' = Set(hist, p, [hist[p] EXCEPT !.bodyRead = TRUE, !.doc = doc])
                 /\ pc' = Set(pc, p, "uc_lock")
                 /\ UNCHANGED <<status, ran>>
    /\ UNCHANGED <<shared, req, handler, chain, idx, newEngine, ri, nreq>>
    /\ UNCHANGED units

(* UpdateConfig without the deferred unlock *)
DeferredUnlock_Missing(mu) == mu

(* UpdateConfig: defer rm.mu.Unlock() runs when it returns or panics *)
DeferredUnlock(mu) == NoProc

(* a Lock that never waits *)
CanLock_Always(mu) == TRUE

(* rm.mu.Lock() succeeds when nobody holds the mutex *)
CanLock(mu) == mu = NoProc

(* UpdateConfig: rm.mu.Lock(); defer rm.mu.Unlock() *)
UpdateLock(p) ==
    /\ pc[p] = "uc_lock"
    /\ CanLock(rm_mu)
    /\ rm_mu' = p
    /\ hist' = Set(hist, p, [hist[p] EXCEPT !.before = Persistent])
    /\ pc' = Set(pc, p, "uc_jwt")
    /\ UNCHANGED <<hs_handler, hs_readers, hs_writer, rm_engine, rm_config, rm_jwtManager,
                   tv_allowed, engines, req, handler, chain, idx, ran, status, newConfig,
                   newEngine, ri, nreq>>
    /\ UNCHANGED rf_client
    /\ UNCHANGED units

(* UpdateConfig: rm.jwtManager = jwt.NewJWTManager(...) *)
UpdateJWT(p) ==
    /\ pc[p] = "uc_jwt"
    /\ rm_jwtManager' = NewJWTManager(newConfig[p].SecretKey, newConfig[p].RequiredFields)
    /\ pc' = Set(pc, p, "uc_engine")
    /\ UNCHANGED <<hs_handler, hs_readers, hs_writer, rm_mu, rm_engine, rm_config,
                   tv_allowed, engines, req, handler, chain, idx, ran, status, newConfig,
                   newEngine, ri, hist, nreq>>
    /\ UNCHANGED rf_client
    /\ UNCHANGED units

(* a new engine that starts from the routes of the current engine *)
NewEngineRoutes_Inherit(g) ==
    ControlRoutes(g, TokenValidator) \cup {r \in engines[rm_engine].routes : r.path # "/config"}

(* a new engine without the /config group *)
NewEngineRoutes_NoControl(g) == {}

(* the routes of the new engine before the loop over newConfig.Routes *)
NewEngineRoutes(g) == ControlRoutes(g, TokenValidator)

(* UpdateConfig: newEngine := gin.Default() and its /config group *)
UpdateNewEngine(p) ==
    /\ pc[p] = "uc_engine"
    /\ LET g == Alloc(engines)
       IN /\ engines' = [h \in DOMAIN engines \cup {g} |->
                           IF h = g THEN Engine(NewEngineRoutes(g), newConfig[p])
                           ELSE engines[h]]
          /\ newEngine' = Set(newEngine, p, g)
    /\ ri' = Set(ri, p, 1)
    /\ pc' = Set(pc, p, IF Len(newConfig[p].Routes) = 0 THEN "uc_commit" ELSE "uc_route")
    /\ UNCHANGED <<hs_handler, hs_readers, hs_writer, rm_mu, rm_engine, rm_config,
                   rm_jwtManager, tv_allowed, req, handler, chain, idx, ran, status,
                   newConfig, hist, nreq>>
    /\ UNCHANGED rf_client
    /\ UNCHANGED units

(* the loop registering on the engine in service *)
AddRouteTarget_Live(p) == rm_engine

(* the engine a route of the loop is registered on *)
AddRouteTarget(p) == newEngine[p]

(* gin's Handle panics on an empty method or path and on a route that is   *)
(* already registered                                                      *)
HandlePanics(engine, m, path) == m = "" \/ path = "" \/ Registered(engine, m, path)

(* UpdateConfig: one iteration of the loop over newConfig.Routes.  A panic *)
(* unwinds through the deferred rm.mu.Unlock() to gin's Recovery, which    *)
(* answers 500.                                                            *)
UpdateRoute(p) ==
    /\ pc[p] = "uc_route"
    /\ LET route == newConfig[p].Routes[ri[p]]
           t == AddRouteTarget(p)
       IN IF getHandlerByType(route.HandlerType) = ""
             \/ HandlePanics(engines[t], route.Method, route.Path)
          THEN /\ rm_mu' = DeferredUnlock(rm_mu)
               /\ status' = Set(status, p, StatusInternalServerError)
               /\ ran' = Set(ran, p, Append(ran[p], Next_(p)))
               /\ hist' = Set(hist, p, [hist[p] EXCEPT !.outcome = "panic"])
               /\ pc' = Set(pc, p, "done")
               /\ UNCHANGED <<engines, ri>>
          ELSE /\ engines' = [engines EXCEPT ![t].routes =
                                @ \cup {Route(route.Method, route.Path,
                                              RouteChain(route, newEngine[p]))}]
               /\ ri' = Set(ri, p, ri[p] + 1)
               /\ pc' = Set(pc, p, IF ri[p] = Len(newConfig[p].Routes) THEN "uc_commit"
                                   ELSE "uc_route")
               /\ UNCHANGED <<rm_mu, status, ran, hist>>
    /\ UNCHANGED <<hs_handler, hs_readers, hs_writer, rm_engine, rm_config, rm_jwtManager,
                   tv_allowed, req, handler, chain, idx, newConfig, newEngine, nreq>>
    /\ UNCHANGED rf_client
    /\ UNCHANGED units

(* UpdateConfig: rm.engine = newEngine; rm.config = newConfig *)
UpdateCommit(p) ==
    /\ pc[p] = "uc_commit"
    /\ rm_engine' = newEngine[p]
    /\ rm_config' = newConfig[p]
    /\ pc' = Set(pc, p, "uh_lock")
    /\ UNCHANGED <<hs_handler, hs_readers, hs_writer, rm_mu, rm_jwtManager, tv_allowed,
                   engines, req, handler, chain, idx, ran, status, newConfig, newEngine,
                   ri, hist, nreq>>
    /\ UNCHANGED rf_client
    /\ UNCHANGED units

(* UpdateConfig leaving the handler of the switcher as it is *)
NewHandler_Previous(p) == hs_handler

(* UpdateConfig: rm.handlerSwitcher.UpdateHandler(rm.engine) *)
NewHandler(p) == rm_engine

(* HandlerSwitcher.UpdateHandler(rm.engine): hs.mu.Lock(); hs.handler = newHandler *)
SwitchLock(p) ==
    /\ pc[p] = "uh_lock"
    /\ hs_writer = NoProc /\ hs_readers = {}
    /\ hs_writer' = p
    /\ hs_handler' = NewHandler(p)
    /\ engines' = Collect(engines, {rm_engine, NewHandler(p)}
                                   \cup {handler[q] : q \in Procs}
                                   \cup {newEngine[q] : q \in Procs})
    /\ pc' = Set(pc, p, "uh_unlock")
    /\ UNCHANGED <<hs_readers, rm_mu, rm_engine, rm_config, rm_jwtManager, tv_allowed,
                   req, handler, chain, idx, ran, status, newConfig, newEngine,
                   ri, hist, nreq>>
    /\ rf_client' = ClientsOf(rf_client, {rm_engine, NewHandler(p)}
                                          \cup {handler[q] : q \in Procs}
                                          \cup {newEngine[q] : q \in Procs})
    /\ UNCHANGED units

(* HandlerSwitcher.UpdateHandler: hs.mu.Unlock() *)
SwitchUnlock(p) ==
    /\ pc[p] = "uh_unlock"
    /\ hs_writer' = NoProc
    /\ pc' = Set(pc, p, "uc_return")
    /\ UNCHANGED <<hs_handler, hs_readers, rm_mu, rm_engine, rm_config, rm_jwtManager,
                   tv_allowed, engines, req, handler, chain, idx, ran, status, newConfig,
                   newEngine, ri, hist, nreq>>
    /\ UNCHANGED rf_client
    /\ UNCHANGED units

(* UpdateConfig returns nil (the deferred unlock runs) and                 *)
(* handleConfigUpdate answers 200                                          *)
UpdateReturn(p) ==
    /\ pc[p] = "uc_return"
    /\ rm_mu' = DeferredUnlock(rm_mu)
    /\ status' = Set(status, p, StatusOK)
    /\ ran' = Set(ran, p, Append(ran[p], Next_(p)))
    /\ hist' = Set(hist, p, [hist[p] EXCEPT !.outcome = "published"])
    /\ pc' = Set(pc, p, "done")
    /\ UNCHANGED <<hs_handler, hs_readers, hs_writer, rm_engine, rm_config, rm_jwtManager,
                   tv_allowed, engines, req, handler, chain, idx, newConfig, newEngine,
                   ri, nreq>>
    /\ UNCHANGED rf_client
    /\ UNCHANGED units

(* TokenValidator.UpdateAllowedAccounts, called by the embedding program *)
UpdateAllowedAccounts ==
    /\ \E accounts \in AllowLists \ {tv_allowed} : tv_allowed' = accounts
    /\ UNCHANGED <<hs_handler, hs_readers, hs_writer, rm_mu, rm_engine, rm_config,
                   rm_jwtManager, engines, pc, req, handler, chain, idx, ran, status,
                   newConfig, newEngine, ri, hist, nreq>>
    /\ UNCHANGED rf_client
    /\ UNCHANGED units

Next ==
    \/ \E p \in Procs :
         \/ Accept(p) \/ ServeRLock(p) \/ ServeRUnlock(p) \/ EngineServe(p)
         \/ NotFound(p) \/ Auth(p) \/ ClientCheck(p) \/ ClientInit(p) \/ Filter(p)
         \/ Signup(p) \/ TokenHandler(p)
         \/ ReadConfig(p) \/ UpdateLock(p) \/ UpdateJWT(p) \/ UpdateNewEngine(p)
         \/ UpdateRoute(p) \/ UpdateCommit(p) \/ SwitchLock(p) \/ SwitchUnlock(p)
         \/ UpdateReturn(p) \/ Finish(p)

Spec == Init /\ [][Next]_vars

(* the steps of one goroutine once net/http has started it: the scheduler  *)
(* runs every goroutine that can take a step, and a goroutine waiting for  *)
(* a mutex gets it once it stays free                                      *)
Step(p) ==
    \/ ServeRLock(p) \/ ServeRUnlock(p) \/ EngineServe(p)
    \/ NotFound(p) \/ Auth(p) \/ ClientCheck(p) \/ ClientInit(p) \/ Filter(p)
    \/ Signup(p) \/ TokenHandler(p)
    \/ ReadConfig(p) \/ UpdateLock(p) \/ UpdateJWT(p) \/ UpdateNewEngine(p)
    \/ UpdateRoute(p) \/ UpdateCommit(p) \/ SwitchLock(p) \/ SwitchUnlock(p)
    \/ UpdateReturn(p) \/ Finish(p)

SpecLive == Spec /\ \A p \in Procs : WF_vars(Step(p))

(* the gateway embedded in a program that also replaces the allow-list *)
NextAllow == Next \/ UpdateAllowedAccounts
SpecAllow == Init /\ [][NextAllow]_vars


(* ----------------------- the identity gate alone ---------------------- *)
(* AuthMiddleware and TokenValidator taken alone: goroutines validating a  *)
(* credential while another goroutine calls UpdateAllowedAccounts.  The    *)
(* TokenValidator has no mutex; the store of UpdateAllowedAccounts and the *)
(* reads of isAllowedServiceAccount are unsynchronized.                    *)

(* a request reaches AuthMiddleware *)
GateAccept(p) ==
    /\ v_pc[p] = "idle"
    /\ \E cred \in GateCreds : v_cred' = Set(v_cred, p, cred)
    /\ v_pc' = Set(v_pc, p, "header")
    /\ UNCHANGED <<server, tv_allowed, v_seen, v_resp, u_pc, u_accounts>>
    /\ UNCHANGED <<filt, jwtm>>

(* AuthMiddleware: the Authorization header must start with "Bearer " *)
GateHeader(p) ==
    /\ v_pc[p] = "header"
    /\ IF v_cred[p].header # "bearer"
       THEN /\ v_resp' = Set(v_resp, p, AuthAnswer({}, v_cred[p]))
            /\ v_pc' = Set(v_pc, p, "done")
       ELSE /\ v_pc' = Set(v_pc, p, "review")
            /\ UNCHANGED v_resp
    /\ UNCHANGED <<server, tv_allowed, v_cred, v_seen, u_pc, u_accounts>>
    /\ UNCHANGED <<filt, jwtm>>

(* ValidateToken: the TokenReview call and the parsing of the username *)
GateReview(p) ==
    /\ v_pc[p] = "review"
    /\ IF ReachesLookup(v_cred[p])
       THEN /\ v_pc' = Set(v_pc, p, "lookup")
            /\ UNCHANGED v_resp
       ELSE /\ v_resp' = Set(v_resp, p, AuthAnswer({}, v_cred[p]))
            /\ v_pc' = Set(v_pc, p, "done")
    /\ UNCHANGED <<server, tv_allowed, v_cred, v_seen, u_pc, u_accounts>>
    /\ UNCHANGED <<filt, jwtm>>

(* isAllowedServiceAccount reads tv.config.AllowedAccounts; a read that    *)
(* races with the store of UpdateAllowedAccounts sees the old or the new   *)
(* map                                                                     *)
GateLookup(p) ==
    /\ v_pc[p] = "lookup"
    /\ \E m \in {tv_allowed} \cup (IF u_pc = "writing" THEN {u_accounts} ELSE {}) :
         v_seen' = Set(v_seen, p, m)
    /\ v_pc' = Set(v_pc, p, "scan")
    /\ UNCHANGED <<server, tv_allowed, v_cred, v_resp, u_pc, u_accounts>>
    /\ UNCHANGED <<filt, jwtm>>

(* isAllowedServiceAccount scans the names of the namespace, ValidateToken *)
(* returns and AuthMiddleware answers or calls c.Next()                    *)
GateScan(p) ==
    /\ v_pc[p] = "scan"
    /\ v_resp' = Set(v_resp, p, AuthAnswer(v_seen[p], v_cred[p]))
    /\ v_pc' = Set(v_pc, p, "done")
    /\ UNCHANGED <<server, tv_allowed, v_cred, v_seen, u_pc, u_accounts>>
    /\ UNCHANGED <<filt, jwtm>>

(* the request leaves the gate *)
GateFinish(p) ==
    /\ v_pc[p] = "done"
    /\ v_pc' = Set(v_pc, p, "idle")
    /\ v_cred' = Set(v_cred, p, NoCred)
    /\ v_seen' = Set(v_seen, p, {})
    /\ v_resp' = Set(v_resp, p, NoResponse)
    /\ UNCHANGED <<server, tv_allowed, u_pc, u_accounts>>
    /\ UNCHANGED <<filt, jwtm>>

(* UpdateAllowedAccounts is called with a new map *)
UpdateAllowedBegin ==
    /\ u_pc = "idle"
    /\ \E accounts \in AllowLists \ {tv_allowed} : u_accounts' = accounts
    /\ u_pc' = "writing"
    /\ UNCHANGED <<server, tv_allowed, v_pc, v_cred, v_seen, v_resp>>
    /\ UNCHANGED <<filt, jwtm>>

(* UpdateAllowedAccounts: tv.config.AllowedAccounts = accounts *)
UpdateAllowedEnd ==
    /\ u_pc = "writing"
    /\ tv_allowed' = u_accounts
    /\ u_pc' = "idle"
    /\ u_accounts' = {}
    /\ UNCHANGED <<server, v_pc, v_cred, v_seen, v_resp>>
    /\ UNCHANGED <<filt, jwtm>>

NextGate ==
    \/ \E p \in Procs :
         \/ GateAccept(p) \/ GateHeader(p) \/ GateReview(p) \/ GateLookup(p)
         \/ GateScan(p) \/ GateFinish(p)
    \/ UpdateAllowedBegin
    \/ UpdateAllowedEnd

SpecGate == Init /\ [][NextGate]_vars


(* -------------------------- the filters alone -------------------------- *)
(* One call of a filter's Process at a time, on a filter and a request     *)
(* drawn from the bounded sets.                                            *)

(* UpdateConfig wraps route.ConditionFilter as yaml.Unmarshal filled it:   *)
(* nothing looks at the Field, Operator or Value of its conditions         *)
UpdateConfigAdmits(cf) == TRUE

(* CreateConditionFilterMiddleware's handler calls filter.Process(c) on a  *)
(* filter of a published route                                             *)
ConditionCall ==
    /\ f_pc = "idle"
    /\ \E cf \in {c \in ConditionFilters : UpdateConfigAdmits(c)}, r \in MetadataRequests :
         /\ f_filter' = cf
         /\ f_req' = r
         /\ f_body' = OriginalBody(r)
    /\ f_i' = 1
    /\ f_pc' = "cond"
    /\ UNCHANGED <<server, tv_allowed, gate, jwtm, f_evaluated, f_sent, f_ret, f_up, f_reads, f_n>>

(* ConditionFilter.Process: one iteration of the loop over cf.Conditions *)
ConditionStep ==
    /\ f_pc = "cond"
    /\ f_i <= Len(f_filter.Conditions)
    /\ f_evaluated' = Append(f_evaluated, f_i)
    /\ LET condition == f_filter.Conditions[f_i]
           result == evaluateCondition(f_req, condition)
       IN IF result = "panic"
          THEN f_ret' = Panic /\ f_pc' = "done" /\ UNCHANGED f_i
          ELSE IF LoopReturns(result)
          THEN /\ f_ret' = Return(FALSE, Err("condition not met", condition))
               /\ f_pc' = "done"
               /\ UNCHANGED f_i
          ELSE f_i' = f_i + 1 /\ UNCHANGED <<f_ret, f_pc>>
    /\ UNCHANGED <<server, tv_allowed, gate, jwtm, f_filter, f_req, f_sent, f_up, f_body, f_reads,
                   f_n>>

(* ConditionFilter.Process: the loop is over, return true, nil *)
ConditionReturn ==
    /\ f_pc = "cond"
    /\ f_i > Len(f_filter.Conditions)
    /\ f_ret' = Return(TRUE, Nil)
    /\ f_pc' = "done"
    /\ UNCHANGED <<server, tv_allowed, gate, jwtm, f_filter, f_req, f_i, f_evaluated, f_sent, f_up,
                   f_body, f_reads, f_n>>

(* CreateRequestFilterMiddleware's handler calls filter.Process(c) on a    *)
(* request no filter has read yet                                          *)
RequestCall ==
    /\ f_pc = "idle"
    /\ \E rf \in RequestFilters, r \in BodyRequests :
         /\ f_filter' = rf
         /\ f_req' = r
         /\ f_body' = OriginalBody(r)
    /\ f_n' = 1
    /\ f_pc' = "rf"
    /\ UNCHANGED <<server, tv_allowed, gate, jwtm, f_i, f_evaluated, f_sent, f_ret, f_up, f_reads>>

(* RequestFilter.Process up to client.Do: read the body with GetRawData,   *)
(* put it back, parse it, build filteredBody and the POST, and send it     *)
RequestSend ==
    /\ f_pc = "rf"
    /\ f_reads' = Append(f_reads, f_body)
    /\ LET rawData == f_body
       IN IF rawData.kind = "unreadable"
          THEN /\ f_ret' = Return(FALSE, Err("error reading raw request body", NoCondition))
               /\ f_pc' = "done"
               /\ UNCHANGED <<f_sent, f_body>>
          ELSE /\ f_body' = RestoredBody(rawData)
               /\ IF rawData.kind # "object"
                  THEN /\ f_ret' = Return(FALSE, Err("error parsing request body", NoCondition))
                       /\ f_pc' = "done"
                       /\ UNCHANGED f_sent
                  ELSE IF NewRequestFails(f_filter.RemoteServer)
                  THEN /\ f_ret' = Return(FALSE, Err("error creating request", NoCondition))
                       /\ f_pc' = "done"
                       /\ UNCHANGED f_sent
                  ELSE /\ f_sent' = Append(f_sent, Outbound(f_filter,
                                       filteredBody(rawData.body, f_filter.FieldsToSend)))
                       /\ f_pc' = "await"
                       /\ UNCHANGED f_ret
    /\ UNCHANGED <<server, tv_allowed, gate, jwtm, f_filter, f_req, f_i, f_evaluated, f_up, f_n>>

(* RequestFilter.Process: client.Do returns and Process returns *)
RequestAnswer ==
    /\ f_pc = "await"
    /\ \E up \in Upstreams :
         /\ f_up' = up
         /\ IF SendsAgain(up)
            THEN /\ f_sent' = Append(f_sent, f_sent[Len(f_sent)])
                 /\ UNCHANGED <<f_ret, f_pc>>
            ELSE /\ f_ret' = RequestFilterReturn(up)
                 /\ f_pc' = "done"
                 /\ UNCHANGED f_sent
    /\ UNCHANGED <<server, tv_allowed, gate, jwtm, f_filter, f_req, f_i, f_evaluated, f_body,
                   f_reads, f_n>>

(* CreateRequestFilterMiddleware's handler: Process allowed, c.Next() runs *)
(* the next request filter of the route on the same gin.Context            *)
RequestNext ==
    /\ f_pc = "done"
    /\ f_filter.kind = "RequestFilter"
    /\ f_ret.returned /\ f_ret.allow
    /\ f_n < MaxChain
    /\ \E rf \in RequestFilters : f_filter' = rf
    /\ f_n' = f_n + 1
    /\ f_sent' = <<>>
    /\ f_ret' = NoReturn
    /\ f_up' = NoUpstream
    /\ f_pc' = "rf"
    /\ UNCHANGED <<server, tv_allowed, gate, jwtm, f_req, f_i, f_evaluated, f_body, f_reads>>

(* the last filter allowed, c.Next() runs the terminal handler:            *)
(* handleLogin's c.ShouldBindJSON reads the body                           *)
TerminalBind ==
    /\ f_pc = "done"
    /\ f_filter.kind = "RequestFilter"
    /\ f_ret.returned /\ f_ret.allow
    /\ f_reads' = Append(f_reads, f_body)
    /\ f_body' = Drained
    /\ f_pc' = "bound"
    /\ UNCHANGED <<server, tv_allowed, gate, jwtm, f_filter, f_req, f_i, f_evaluated, f_sent,
                   f_ret, f_up, f_n>>

(* the middleware has answered, or the terminal handler has *)
FilterDone ==
    /\ f_pc \in {"done", "bound"}
    /\ f_pc' = "idle"
    /\ f_filter' = NoFilter
    /\ f_req' = NoRequest
    /\ f_i' = 0
    /\ f_evaluated' = <<>>
    /\ f_sent' = <<>>
    /\ f_ret' = NoReturn
    /\ f_up' = NoUpstream
    /\ f_body' = Drained
    /\ f_reads' = <<>>
    /\ f_n' = 0
    /\ UNCHANGED <<server, tv_allowed, gate, jwtm>>

NextFilter ==
    \/ ConditionCall \/ ConditionStep \/ ConditionReturn
    \/ RequestCall \/ RequestSend \/ RequestAnswer
    \/ RequestNext \/ TerminalBind
    \/ FilterDone

SpecFilter == Init /\ [][NextFilter]_vars


(* --------------------------- the tokens alone --------------------------- *)
(* The JWTManager the last published configuration made, a clock, and a   *)
(* client that holds the token it was last given or something it made of   *)
(* it.                                                                     *)

(* the clock moves on *)
Advances == {1, Expiry - 1}
JwtTick ==
    /\ j_adv < MaxAdvances
    /\ \E d \in Advances : j_clock' = j_clock + d
    /\ j_adv' = j_adv + 1
    /\ j_call' = NoCall
    /\ UNCHANGED <<server, tv_allowed, gate, filt, j_mgr, j_token, j_origin>>

(* handleLogin: rm.jwtManager.GenerateToken(loginData) *)
JwtGenerate ==
    /\ j_mgr.present
    /\ \E data \in Data :
         LET r == GenerateToken(j_mgr, data, j_clock)
         IN /\ j_call' = [op |-> "generate", at |-> j_clock, m |-> j_mgr, data |-> data,
                          result |-> r]
            /\ j_token' = r.token
            /\ j_origin' = IF r.kind = "ok"
                           THEN [data |-> data, token |-> r.token]
                           ELSE NoOrigin
    /\ UNCHANGED <<server, tv_allowed, gate, filt, j_mgr, j_clock, j_adv>>

(* the client makes another token of the one it was given *)
JwtForge ==
    /\ j_token.present
    /\ j_token = j_origin.token
    /\ \E t \in Variants(j_token) : j_token' = t
    /\ j_call' = NoCall
    /\ UNCHANGED <<server, tv_allowed, gate, filt, j_mgr, j_clock, j_adv, j_origin>>

(* handleVerify: rm.jwtManager.ValidateToken(requestData.Token) *)
JwtValidate ==
    /\ j_mgr.present
    /\ j_token.present
    /\ j_call' = [op |-> "validate", at |-> j_clock, m |-> j_mgr, data |-> NoData,
                  result |-> JWTManager_ValidateToken(j_mgr, j_token, j_clock)]
    /\ UNCHANGED <<server, tv_allowed, gate, filt, j_mgr, j_clock, j_adv, j_token, j_origin>>

(* UpdateConfig: rm.jwtManager = jwt.NewJWTManager(...) *)
JwtNew ==
    /\ \E m \in Managers \ {j_mgr} : j_mgr' = m
    /\ j_call' = NoCall
    /\ UNCHANGED <<server, tv_allowed, gate, filt, j_clock, j_adv, j_token, j_origin>>

NextJwt == JwtTick \/ JwtGenerate \/ JwtForge \/ JwtValidate \/ JwtNew

SpecJwt == Init /\ [][NextJwt]_vars


(* ------------------------------ properties ----------------------------- *)
Range(f) == {f[i] : i \in DOMAIN f}
Last(q) == q[Len(q)]
Dispatched(p) == pc[p] \notin {"idle", "serve", "runlock", "engine"}
Terminal == {"handleSignup", "handleLogin", "handleVerify"}
Readable == {hs_handler} \cup {handler[p] : p \in {q \in Procs : handler[q] # NoEngine}}

(* C1: every handler that has run for a request is, position by position,  *)
(* the handler chain that the table read by the request's dispatch holds   *)
(* for the request's method and path, also when another table has been     *)
(* published since; the request keeps the chain it started with.           *)
RequestStaysOnItsTable ==
    \A p \in Procs :
        Dispatched(p) =>
            /\ handler[p] \in DOMAIN engines
            /\ chain[p] = Lookup(engines[handler[p]], handler[p], req[p].method, req[p].path)
            /\ Len(ran[p]) <= Len(chain[p])
            /\ \A i \in DOMAIN ran[p] : ran[p][i] = chain[p][i] /\ ran[p][i].gen = handler[p]

(* a request finished by its terminal handler, behind a filter, after the  *)
(* table it was dispatched against was replaced                            *)
WitnessRequestOutlivesTable ==
    \E p \in Procs :
        /\ pc[p] = "done"
        /\ handler[p] # hs_handler
        /\ Len(ran[p]) >= 4
        /\ Last(ran[p]).kind \in Terminal

(* C2: the table dispatch can read is complete and of one generation: its  *)
(* routes are the control route and the routes of the one configuration it *)
(* was built for, every handler in it was created for it; and no step      *)
(* changes a table that dispatch can read or has read.                     *)
Keys(engine) == {<<r.method, r.path>> : r \in engine.routes}
ConfigKeys(cfg) == {<<"POST", "/config">>} \cup {<<r.Method, r.Path>> : r \in Range(cfg.Routes)}

LiveTableComplete ==
    LET e == engines[hs_handler]
    IN /\ Keys(e) = ConfigKeys(e.src)
       /\ Cardinality(e.routes) = Cardinality(Keys(e))
       /\ \A r \in e.routes : \A i \in DOMAIN r.chain : r.chain[i].gen = hs_handler

ReadableTablesFrozen ==
    \A g \in Readable : g \in DOMAIN engines' => engines'[g] = engines[g]

PublishIsAtomic == []LiveTableComplete /\ [][ReadableTablesFrozen]_vars

(* a request is being dispatched while another goroutine has a table with  *)
(* a configured route under construction                                   *)
WitnessReaderDuringBuild ==
    \E p, q \in Procs :
        /\ pc[p] \in {"uc_route", "uc_commit"}
        /\ Cardinality(engines[newEngine[p]].routes) >= 2
        /\ pc[q] \in {"engine", "chain"}
        /\ handler[q] = hs_handler
        /\ newEngine[p] # hs_handler

(* C3: when a configuration submission fails (the body is not parsable, a  *)
(* route names an unregistered handler_type or gin refuses a route), the   *)
(* table dispatch reads is the table that was live when the submission     *)
(* started to be processed.                                                *)
Fails(p) == pc[p] # "done" /\ pc'[p] = "done" /\ hist'[p].outcome \in {"unreadable", "unparsable", "panic"}

FailedSubmissionKeepsTable ==
    [][\A p \in Procs : Fails(p) =>
            /\ hs_handler' = hist'[p].before.live
            /\ engines'[hs_handler'].routes = hist'[p].before.table]_vars

(* a submission has failed in UpdateConfig while a configured table was live *)
WitnessFailedOverPublished ==
    \E p \in Procs :
        /\ pc[p] = "done"
        /\ hist[p].outcome = "panic"
        /\ rm_config.present
        /\ Cardinality(engines[hs_handler].routes) >= 2


(* C4: a configuration submission that fails at parse or compile time      *)
(* leaves the live table, the stored configuration, the token issuer and   *)
(* the allow-list as they were when its processing started.                *)
FailedSubmissionChangesNothing ==
    [][\A p \in Procs : Fails(p) => Persistent' = hist'[p].before]_vars

(* C5: a configuration with a route whose handler_type is outside the      *)
(* registry never becomes dispatchable, not even its valid routes: every   *)
(* table dispatch can read was built for a configuration whose routes all  *)
(* name registered handlers, and each of its routes ends in a real handler.*)
Compilable(cfg) == \A r \in Range(cfg.Routes) : r.HandlerType \in Registry

NoTableFromUnknownHandler ==
    \A g \in Readable :
        /\ Compilable(engines[g].src)
        /\ \A r \in engines[g].routes :
               Last(r.chain).kind \in Terminal \cup {"handleConfigUpdate"}

(* the configuration that lists a valid route before the unknown one has   *)
(* been refused, and a request for its valid route is answered 404         *)
WitnessUnknownHandlerRefused ==
    \E p, q \in Procs :
        /\ pc[p] = "done" /\ hist[p].doc = DocUnknownHandler /\ hist[p].outcome = "panic"
        /\ pc[q] = "done" /\ req[q] = [method |-> "GET", path |-> "/verify"]
        /\ status[q] = StatusNotFound

(* C6: in every live table POST /config runs the configuration handler     *)
(* behind the identity gate with the validator created at startup, and it  *)
(* is the only route for POST /config.                                     *)
ControlChainKinds == <<"Logger", "Recovery", "AuthMiddleware", "handleConfigUpdate">>

ControlRouteIntact ==
    LET routes == {r \in engines[hs_handler].routes : r.method = "POST" /\ r.path = "/config"}
    IN /\ Cardinality(routes) = 1
       /\ \A r \in routes :
              /\ [i \in DOMAIN r.chain |-> r.chain[i].kind] = ControlChainKinds
              /\ r.chain[3].arg = TokenValidator

(* a published table is live and a configuration declaring POST /config    *)
(* has been submitted                                                      *)
WitnessControlRouteDeclared ==
    \E p \in Procs :
        /\ pc[p] = "done" /\ hist[p].doc = DocControl /\ hist[p].outcome = "panic"
        /\ rm_config.present /\ hs_handler = rm_engine

(* C7: the body of a POST /config request is read, and UpdateConfig is     *)
(* entered, only for a caller the identity gate accepted; a rejected       *)
(* request has read no body and no step of a request the gate has not      *)
(* accepted changes the live table, the stored configuration or the token  *)
(* issuer.                                                                 *)
InUpdateConfig(p) ==
    pc[p] \in {"uc_lock", "uc_jwt", "uc_engine", "uc_route", "uc_commit", "uh_lock",
               "uh_unlock", "uc_return"}

GateFirst ==
    \A p \in Procs :
        /\ hist[p].bodyRead \/ InUpdateConfig(p) \/ newConfig[p].present => hist[p].gate
        /\ hist[p].outcome = "rejected" =>
               ~hist[p].bodyRead /\ status[p] \in {StatusUnauthorized, StatusInternalServerError}

UngatedStepsChangeNothing ==
    \A p \in Procs : pc'[p] # pc[p] /\ ~hist[p].gate /\ ~hist'[p].gate => Persistent' = Persistent

GateBeforeBody == []GateFirst /\ [][UngatedStepsChangeNothing]_vars

(* a caller was rejected by the gate while a configured table is live, and *)
(* another caller got through to UpdateConfig                              *)
WitnessGateRejects ==
    \E p, q \in Procs :
        /\ pc[p] = "done" /\ hist[p].outcome = "rejected"
        /\ InUpdateConfig(q) /\ hist[q].gate

(* C8: at most one goroutine is inside UpdateConfig's critical section and *)
(* at most one table is under construction.                                *)
InCritical(p) ==
    pc[p] \in {"uc_jwt", "uc_engine", "uc_route", "uc_commit", "uh_lock", "uh_unlock",
               "uc_return"}

PublishesSerialized ==
    /\ Cardinality({p \in Procs : InCritical(p)}) <= 1
    /\ \A p \in Procs : InCritical(p) <=> rm_mu = p
    /\ Cardinality({newEngine[p] : p \in {q \in Procs : pc[q] \in {"uc_route", "uc_commit"}}}) <= 1

(* one submission is building a table while another waits for the lock *)
WitnessSubmissionWaits ==
    \E p, q \in Procs : pc[p] = "uc_route" /\ pc[q] = "uc_lock"


(* C9: when a publish has succeeded the live table is the one built for    *)
(* the published configuration; in the live table every declared route     *)
(* resolves to its configured chain (request filters in order, condition   *)
(* filter, terminal handler), POST /config to the control chain and every  *)
(* other method and path to NotFound; and what a request ran is a prefix   *)
(* of the chain configured in the table it was dispatched against, with    *)
(* status 404 exactly when that table's configuration does not declare it. *)
HandlerOf(handlerType) ==
    CASE handlerType = "signup" -> "handleSignup"
      [] handlerType = "login" -> "handleLogin"
      [] handlerType = "verify" -> "handleVerify"
      [] OTHER -> "nil"

Configured(cfg, m, path) ==
    IF m = "POST" /\ path = "/config"
    THEN <<<<"Logger", "">>, <<"Recovery", "">>, <<"AuthMiddleware", TokenValidator>>,
           <<"handleConfigUpdate", "">>>>
    ELSE IF \E r \in Range(cfg.Routes) : r.Method = m /\ r.Path = path
    THEN LET r == CHOOSE r \in Range(cfg.Routes) : r.Method = m /\ r.Path = path
         IN <<<<"Logger", "">>, <<"Recovery", "">>>>
            \o [i \in DOMAIN r.RequestFilters |-> <<"RequestFilter", r.RequestFilters[i]>>]
            \o (IF r.ConditionFilter = "" THEN <<>>
                ELSE <<<<"ConditionFilter", r.ConditionFilter>>>>)
            \o <<<<HandlerOf(r.HandlerType), "">>>>
    ELSE <<<<"Logger", "">>, <<"Recovery", "">>, <<"NotFound", "">>>>

Described(c) == [i \in DOMAIN c |-> <<c[i].kind, c[i].arg>>]

UnknownHandlerKind(doc) == \E r \in Range(doc.routes) : r.handler_type \notin Registry
UnknownFilterKind(doc) == \E r \in Range(doc.routes) : r.extra # ""

ConfigErrorStatus ==
    \A p \in Procs :
        pc[p] = "done" /\ hist[p].bodyRead =>
            /\ ~hist[p].doc.wellFormed =>
                   status[p] = StatusBadRequest /\ ~newConfig[p].present
            /\ hist[p].doc.wellFormed /\ UnknownHandlerKind(hist[p].doc) =>
                   status[p] = StatusInternalServerError

ConfigErrorKeepsLive ==
    \A p \in Procs :
        /\ pc[p] # "done" /\ pc'[p] = "done" /\ hist'[p].bodyRead
        /\ (~hist'[p].doc.wellFormed \/ UnknownHandlerKind(hist'[p].doc))
        => hs_handler' = hs_handler /\ engines'[hs_handler'] = engines[hs_handler]

GateRejected(p) == v_pc[p] = "done" /\ v_resp[p] # NoResponse
GatePassed(p) == v_pc[p] = "done" /\ v_resp[p] = NoResponse

(* C11: every request the identity gate rejects is answered with status    *)
(* 401, and any two rejected requests receive the same response whatever   *)
(* the cause of the rejection.                                             *)
RejectionsIndistinguishable ==
    \A p, q \in Procs :
        GateRejected(p) =>
            /\ v_resp[p].status = StatusUnauthorized
            /\ GateRejected(q) => v_resp[p] = v_resp[q]

(* C12: a credential passes ValidateToken only if the TokenReview reported *)
(* it authenticated, its username is system:serviceaccount:<ns>:<name>     *)
(* with exactly four parts, and <name> is among the names the allow-list   *)
(* read by the lookup holds for <ns>.                                      *)
ValidOnlyForAllowedServiceAccount ==
    \A p \in Procs :
        GatePassed(p) =>
            /\ v_cred[p].header = "bearer"
            /\ v_cred[p].review = "ok"
            /\ Len(v_cred[p].username) = 4
            /\ v_cred[p].username[1] = "system"
            /\ v_cred[p].username[2] = "serviceaccount"
            /\ <<v_cred[p].username[3], v_cred[p].username[4]>> \in v_seen[p]
            /\ v_seen[p] \in AllowLists

(* one credential has passed and an authenticated service account that is  *)
(* not allow-listed has been rejected                                      *)
WitnessAllowedPassesOtherRejected ==
    \E p, q \in Procs :
        /\ GatePassed(p)
        /\ GateRejected(q) /\ ReachesLookup(v_cred[q])
        /\ <<v_cred[q].username[3], v_cred[q].username[4]>> \notin v_seen[q]
        /\ \E e \in v_seen[q] : e[2] = v_cred[q].username[4]

(* C13: no goroutine is inside the allow-list lookup of ValidateToken      *)
(* while UpdateAllowedAccounts is replacing the allow-list.                *)
LookupExcludesReplacement ==
    ~(u_pc = "writing" /\ \E p \in Procs : v_pc[p] \in {"lookup", "scan"})


(* --------------------------- filter chains ----------------------------- *)
FilterKinds == {"RequestFilter", "ConditionFilter"}
FiltersRun(p) == {j \in DOMAIN ran[p] : ran[p][j].kind \in FilterKinds}

(* C14: a filter that returns allow=false is the last handler that runs    *)
(* for its request: the request is answered 403 there, every filter before *)
(* it allowed, and no later filter and no terminal handler runs.           *)
FirstRefusalEndsChain ==
    \A p \in Procs :
        /\ Cardinality(FiltersRun(p)) = Len(hist[p].verdicts)
        /\ \A i \in DOMAIN hist[p].verdicts :
               ~hist[p].verdicts[i] =>
                   /\ i = Len(hist[p].verdicts)
                   /\ pc[p] = "done"
                   /\ status[p] = StatusForbidden
                   /\ Last(ran[p]).kind \in FilterKinds
                   /\ \A j \in DOMAIN ran[p] : ran[p][j].kind \notin Terminal

(* the first filter of a chain refused while a second filter and the       *)
(* terminal handler were still to come                                     *)
WitnessRefusedBeforeLaterFilter ==
    \E p \in Procs :
        /\ hist[p].verdicts = <<FALSE>>
        /\ status[p] = StatusForbidden
        /\ Len(chain[p]) >= Len(ran[p]) + 2
        /\ chain[p][Len(ran[p]) + 1].kind \in FilterKinds

(* the route the configuration of p's table declares for p's request *)
IsDeclared(p) ==
    \E r \in Range(engines[handler[p]].src.Routes) :
        r.Method = req[p].method /\ r.Path = req[p].path
DeclaredRoute(p) ==
    CHOOSE r \in Range(engines[handler[p]].src.Routes) :
        r.Method = req[p].method /\ r.Path = req[p].path
RequestFiltersRun(p) == SelectSeq(ran[p], LAMBDA h : h.kind = "RequestFilter")

(* C15: on a route declared with request filters f1..fk, the request       *)
(* filters that have run for a request are, in order, f1, f2, ... each     *)
(* bound to its own declaration; when the terminal handler has run, all k  *)
(* of them have run before it, each once, and each allowed.                *)
RequestFiltersInDeclaredOrder ==
    \A p \in Procs :
        (Dispatched(p) /\ IsDeclared(p)) =>
            LET f == DeclaredRoute(p).RequestFilters
                g == RequestFiltersRun(p)
            IN /\ Len(g) <= Len(f)
               /\ \A i \in DOMAIN g :
                      /\ g[i].arg = f[i]
                      /\ ran[p][2 + i] = g[i]
               /\ (\E j \in DOMAIN ran[p] : ran[p][j].kind \in Terminal) =>
                      /\ Len(g) = Len(f)
                      /\ Last(ran[p]).kind \in Terminal
                      /\ \A i \in DOMAIN hist[p].verdicts : hist[p].verdicts[i]

(* a request has run two different request filters and then its terminal  *)
(* handler                                                                 *)
WitnessTwoFiltersThenTerminal ==
    \E p \in Procs :
        /\ Dispatched(p) /\ IsDeclared(p)
        /\ Len(RequestFiltersRun(p)) = 2
        /\ RequestFiltersRun(p)[1].arg # RequestFiltersRun(p)[2].arg
        /\ Last(ran[p]).kind \in Terminal


(* ------------------------- filters (SpecFilter) ------------------------ *)
InConditionFilter == f_filter.kind = "ConditionFilter"
CondHolds(i) == evaluateCondition(f_req, f_filter.Conditions[i]) = "true"
CondFails(i) == evaluateCondition(f_req, f_filter.Conditions[i]) = "false"
SingleCondition == InConditionFilter /\ Len(f_filter.decl) = 1

(* C16: ConditionFilter.Process evaluates conditions 1, 2, ... in list     *)
(* order and goes on only past a condition that holds; it returns          *)
(* allow=true with no error exactly when every condition holds (an empty   *)
(* list included), and when the first condition that does not hold fails   *)
(* it has evaluated nothing after it and returns allow=false with an error *)
(* naming that condition.                                                  *)
ConditionsShortCircuit ==
    InConditionFilter =>
        /\ \A j \in DOMAIN f_evaluated :
               /\ f_evaluated[j] = j
               /\ j < Len(f_evaluated) => CondHolds(j)
        /\ (f_ret.returned /\ f_ret.allow) =>
               /\ ~f_ret.err.present
               /\ Len(f_evaluated) = Len(f_filter.Conditions)
               /\ \A i \in DOMAIN f_filter.Conditions : CondHolds(i)
        /\ (f_ret.returned /\ ~f_ret.allow) =>
               /\ f_evaluated # <<>>
               /\ CondFails(Len(f_evaluated))
               /\ f_ret.err = Err("condition not met", f_filter.Conditions[Len(f_evaluated)])
        /\ f_pc = "done" =>
               /\ (\A i \in DOMAIN f_filter.Conditions : CondHolds(i))
                      => f_ret = Return(TRUE, Nil)
               /\ \A i \in DOMAIN f_filter.Conditions :
                      (CondFails(i) /\ \A j \in 1..(i - 1) : CondHolds(j))
                          => (f_ret.returned /\ ~f_ret.allow /\ Len(f_evaluated) = i)

(* Process has returned false at the second of three conditions, the third *)
(* never evaluated                                                         *)
WitnessStoppedAtSecond ==
    /\ InConditionFilter /\ f_pc = "done"
    /\ Len(f_filter.Conditions) = 3
    /\ f_evaluated = <<1, 2>>
    /\ f_ret.returned /\ ~f_ret.allow

(* C17: a condition declared with a subject, an operator, a key and an     *)
(* expected value holds exactly when the request's value under that key    *)
(* equals / contains / starts with / ends with the expected value.         *)
ConditionComparesKeyWithExpected ==
    (/\ SingleCondition /\ f_pc = "done"
     /\ f_filter.decl[1].field \in {"header", "query", "param"}
     /\ f_filter.decl[1].operator \in {"equals", "contains", "prefix", "suffix"}
     /\ f_filter.decl[1].value.string) =>
        LET d == f_filter.decl[1]
            v == RequestValue(f_req, d.field, d.key)
            e == d.value.s
        IN /\ f_ret.returned
           /\ f_ret.allow <=>
                  CASE d.operator = "equals" -> v = e
                    [] d.operator = "contains" -> Contains(v, e)
                    [] d.operator = "prefix" -> HasPrefix(v, e)
                    [] d.operator = "suffix" -> HasSuffix(v, e)

(* C18: a ConditionFilter whose only condition is {header, equals, V}      *)
(* allows a request whose header V has the value V and rejects a request   *)
(* whose header V has another value or, V not being empty, is missing.     *)
HeaderEqualsItsOwnName ==
    (/\ SingleCondition /\ f_pc = "done"
     /\ f_filter.Conditions[1].Field = "header"
     /\ f_filter.Conditions[1].Operator = "equals"
     /\ f_filter.Conditions[1].Value.string) =>
        LET V == f_filter.Conditions[1].Value.s
            carried == f_req.subject = "header" /\ f_req.key = V
        IN /\ f_ret.returned
           /\ (carried /\ f_req.value = V) => f_ret.allow
           /\ (carried /\ f_req.value # V) => ~f_ret.allow
           /\ (~carried /\ V # <<>>) => ~f_ret.allow

(* the request carries the header V with the value V and is allowed *)
WitnessHeaderEqualsAllowed ==
    /\ SingleCondition /\ f_pc = "done"
    /\ f_filter.Conditions[1] = Condition("header", "equals", Str(<<"a">>))
    /\ f_req.subject = "header" /\ f_req.key = <<"a">> /\ f_req.value = <<"a">>
    /\ f_ret = Return(TRUE, Nil)

(* C19: a ConditionFilter whose only condition is {query, contains, V}     *)
(* allows every request that carries a query parameter named V with a      *)
(* value that is not empty.                                                *)
QueryContainsAllowsPresentParameter ==
    (/\ SingleCondition /\ f_pc = "done"
     /\ f_filter.Conditions[1].Field = "query"
     /\ f_filter.Conditions[1].Operator = "contains"
     /\ f_filter.Conditions[1].Value.string
     /\ f_req.subject = "query"
     /\ f_req.key = f_filter.Conditions[1].Value.s
     /\ f_req.value # <<>>) =>
        f_ret = Return(TRUE, Nil)

RequestFilterReturned == f_filter.kind = "RequestFilter" /\ f_pc \in {"done", "bound"}
Answered == f_up # NoUpstream

(* C21: when the remote server answered HTTP 200 with a body that decodes, *)
(* what RequestFilter.Process returns is the allow field of that body:     *)
(* allow=true for {"allow": true} and allow=false for {"allow": false}     *)
DecisionIsAllowField ==
    (/\ RequestFilterReturned /\ Answered
     /\ ~f_up.err /\ f_up.code = StatusOK /\ f_up.decodes) =>
        (f_ret.returned /\ f_ret.allow = f_up.allow)

(* C22: RequestFilter.Process is fail-closed: for every upstream outcome   *)
(* other than HTTP 200 (another status, other 2xx included, a transport    *)
(* error, a timeout) and for a 200 whose body cannot be parsed it returns  *)
(* allow=false                                                             *)
FailClosed ==
    (/\ RequestFilterReturned /\ Answered
     /\ (f_up.err \/ f_up.code # StatusOK \/ ~f_up.decodes)) =>
        (f_ret.returned /\ ~f_ret.allow)

EveryReadYieldsOriginalBody ==
    \A i \in DOMAIN f_reads : f_reads[i] = OriginalBody(f_req)

WitnessReadByFiltersThenTerminal ==
    /\ f_pc = "bound"
    /\ f_n = MaxChain
    /\ Len(f_reads) = MaxChain + 1
    /\ f_req.kind = "object" /\ DOMAIN f_req.body # {}


(* ---------------------------- the token manager ------------------------- *)
Generated == j_call.op = "generate"
Validated == j_call.op = "validate"
Accepted == Validated /\ j_call.result.kind \in {"ok", "nil"}

(* C25: GenerateToken returns an error and no token exactly when a field   *)
(* of the required-field list is absent from the input, and a signed token *)
(* when every required field is present                                    *)
GenerateFailsIffRequiredAbsent ==
    Generated =>
        LET absent == MissingRequired(j_call.m, j_call.data) # {}
            r == j_call.result
        IN /\ (r.kind = "error" /\ ~r.token.present) <=> absent
           /\ ~absent => (r.kind = "ok" /\ r.token.present /\ r.token.key = j_call.m.SecretKey)

(* C26: a token GenerateToken returns carries the input's username as      *)
(* subject, the issuer "OpenAuth", issuedAt and expiresAt = issuedAt + ttl *)
(* from the one clock reading of the call, so expiresAt >= issuedAt        *)
MintedClaims ==
    (Generated /\ j_call.result.kind = "ok") =>
        LET c == j_call.result.token.claims
        IN /\ c.Subject = j_call.data.username.s
           /\ c.Issuer = "OpenAuth"
           /\ c.IssuedAt = NumericDate(j_call.at)
           /\ c.ExpiresAt = c.IssuedAt + Expiry
           /\ c.ExpiresAt >= c.IssuedAt

WitnessMintedWithinASecond ==
    /\ Generated /\ j_call.result.kind = "ok"
    /\ j_call.at % TicksPerSecond # 0
    /\ j_call.result.token.claims.IssuedAt < j_call.at

(* C27: ValidateToken applied before expiry to the token GenerateToken     *)
(* returned, by a manager with the same secret and required fields,        *)
(* returns no error and claims whose subject and role are the input's      *)
(* username and role                                                       *)
RoundTrip ==
    (/\ Validated
     /\ j_token = j_origin.token
     /\ j_call.m.SecretKey = j_token.key
     /\ MissingRequired(j_call.m, j_origin.data) = {}
     /\ j_call.at < j_token.claims.ExpiresAt) =>
        /\ j_call.result.kind = "ok"
        /\ j_call.result.claims.Subject = j_origin.data.username.s
        /\ j_call.result.claims.Role = j_origin.data.role.s

(* C28: ValidateToken accepts a token only if its header names HS256, the  *)
(* algorithm GenerateToken signs with                                      *)
AcceptsOnlyHS256 ==
    Accepted => j_token.alg = "HS256"

(* C29: a token signed with the manager's secret is accepted exactly while *)
(* now < expiresAt and refused as expired from then on; a token signed     *)
(* with another secret and a malformed one are never accepted              *)
TokenLifecycle ==
    Validated =>
        LET r == j_call.result
            signed == /\ j_token.wellformed /\ j_token.alg = "HS256"
                      /\ j_token.key = j_call.m.SecretKey
                      /\ j_token.claims.ExpiresAt # NoDate
        IN /\ signed => (Accepted <=> j_call.at < j_token.claims.ExpiresAt)
           /\ (signed /\ j_call.at >= j_token.claims.ExpiresAt) =>
                (r.kind = "error" /\ r.err = "token is expired")
           /\ (~j_token.wellformed \/ j_token.key # j_call.m.SecretKey) => ~Accepted

(* C30: for a correctly signed, unexpired token ValidateToken returns an   *)
(* error when a field of the required-field list is absent from the claims *)
(* and the claims, never nil with a nil error, when all of them are there  *)
ClaimOf(field, claims) == IF field = "role" THEN claims.Role ELSE claims.Subject
RequiredRechecked ==
    (/\ Validated
     /\ ParseWithClaims(j_call.m, j_token, j_call.at) = ""
     /\ j_token.claims.ExpiresAt # NoDate) =>
        LET fields == j_call.m.RequiredFields
            absent == \E i \in DOMAIN fields : ClaimOf(fields[i], j_token.claims) = ""
            r == j_call.result
        IN /\ absent => r.kind = "error"
           /\ ~absent => (r.kind = "ok" /\ r.claims = j_token.claims)


(* ------------------- the token issuer and the table --------------------- *)
IssuerOf(config) == NewJWTManager(config.SecretKey, config.RequiredFields)
UsedIssuer(p) == pc[p] = "done" /\ hist[p].issuer.present

(* C31: the token issuer a login or verify handler uses is the one built   *)
(* from the configuration of the table the request was dispatched against, *)
(* whatever is submitted meanwhile                                         *)
IssuerOfRoutingTable ==
    \A p \in Procs :
        UsedIssuer(p) => hist[p].issuer = IssuerOf(engines[handler[p]].src)

(* p and q are at the same RequestFilter of the same table *)
SameFilter(p, q) == handler[q] = handler[p] /\ Next_(q) = Next_(p)

(* C33: requests write no state they share: no two requests on a route are *)
(* both about to write the client of its RequestFilter, or one to write it *)
(* while the other reads it, and no terminal handler reads rm.jwtManager   *)
(* while a publish is about to write it                                    *)
RequestsShareNoUnsynchronizedState ==
    \A p, q \in Procs :
        p # q =>
            /\ pc[p] = "rf_init" =>
                 ~(/\ pc[q] = "rf_init" \/ AtHandler(q, {"RequestFilter"})
                   /\ SameFilter(p, q))
            /\ pc[p] = "uc_jwt" => ~AtHandler(q, {"handleLogin", "handleVerify"})

(* p is at tokenValidator.ValidateToken or at rf.client.Do *)
NetworkIO(p) ==
    \/ AtHandler(p, {"AuthMiddleware"})
    \/ AtHandler(p, {"RequestFilter"}) /\ Next_(p) \in rf_client
    \/ pc[p] = "rf_send"

(* C34: a request that is calling the identity authority or the remote     *)
(* server of a RequestFilter holds neither rm.mu nor the switcher's lock   *)
NoLockDuringNetworkIO ==
    \A p \in Procs :
        NetworkIO(p) => (rm_mu # p /\ hs_writer # p /\ p \notin hs_readers)

(* a request is at its remote call while a publish holds rm.mu and another *)
(* while the publish holds the switcher's lock                             *)
WitnessPublishDuringRemoteCall ==
    \E p, q \in Procs :
        /\ NetworkIO(p)
        /\ rm_mu = q /\ hs_writer = q

(* C37: a publish started from inside a request does not deadlock: every   *)
(* UpdateConfig that waits for rm.mu gets it, gets the switcher's write    *)
(* lock where it needs it, and returns                                     *)
PublishReturns ==
    \A p \in Procs : (pc[p] = "uc_lock") ~> (pc[p] = "done" /\ rm_mu # p /\ hs_writer # p)

(* a submission waits for rm.mu while another holds it, and requests sit   *)
(* between the switcher's RLock and RUnlock while a publish wants to write *)
WitnessPublishWaits ==
    \E p, q \in Procs : pc[p] = "uc_lock" /\ rm_mu = q
WitnessSwitchWaits ==
    \E p, q \in Procs : pc[p] = "uh_lock" /\ q \in hs_readers

(* the switcher's handler is rm.engine, the table of rm.config *)
LiveIsLastPublished ==
    rm_mu = NoProc =>
        /\ hs_handler = rm_engine
        /\ engines[hs_handler].src = rm_config
OnlyPublishSwitches ==
    /\ (rm_mu = NoProc /\ rm_mu' = NoProc) => (hs_handler' = hs_handler /\ rm_config' = rm_config)
    /\ \A p \in Procs :
         (pc[p] = "uc_return" /\ pc'[p] = "done") =>
             (hs_handler' = newEngine[p] /\ rm_config' = newConfig[p])

(* C38: while no publish holds rm.mu the switcher's handler is rm.engine   *)
(* and it is the table of rm.config, the configuration of the last         *)
(* publish that succeeded; only a publish changes it, to its own table     *)
ServedByLastPublished == []LiveIsLastPublished /\ [][OnlyPublishSwitches]_vars

WitnessSecondPublishLive ==
    \E p \in Procs :
        /\ pc[p] = "done" /\ hist[p].outcome = "published"
        /\ rm_mu = NoProc
        /\ hist[p].before.config.present
        /\ hs_handler = newEngine[p]
        /\ rm_config # hist[p].before.config

(* the routes of a table that end in handleLogin or handleVerify *)
TokenRoutes(engine) ==
    {r \in engine.routes : r.chain[Len(r.chain)].kind \in {"handleLogin", "handleVerify"}}

(* C40: whenever the live table has a route that ends in handleLogin or    *)
(* handleVerify, and whenever a request runs one of them, rm.jwtManager is *)
(* not nil                                                                 *)
IssuerPresentForTokenRoutes ==
    /\ TokenRoutes(engines[hs_handler]) # {} => rm_jwtManager.present
    /\ \A p \in Procs : AtHandler(p, {"handleLogin", "handleVerify"}) => rm_jwtManager.present

WitnessTokenHandlerAfterFailedPublish ==
    \E p, q \in Procs :
        /\ AtHandler(p, {"handleLogin", "handleVerify"})
        /\ pc[q] = "done" /\ hist[q].outcome = "panic"
        /\ rm_jwtManager.present

(* --------------------- filters and tokens, once more -------------------- *)
WellFormedCondition(condition) ==
    /\ condition.Field \in {"header", "query", "param"}
    /\ condition.Operator \in {"equals", "contains", "prefix", "suffix"}
    /\ condition.Value.string

(* C32: a condition whose subject is not header, query or param, whose     *)
(* operator is not equals, contains, prefix or suffix, or whose value is   *)
(* not a string is refused when the configuration is compiled and is never *)
(* evaluated for a request                                                 *)
MalformedConditionNeverEvaluated ==
    \A n \in DOMAIN f_evaluated :
        WellFormedCondition(f_filter.Conditions[f_evaluated[n]])

(* C35: GenerateToken and ValidateToken return a token, claims or an error *)
(* for every input; they never panic                                       *)
TokenOperationsNeverPanic ==
    (Generated \/ Validated) => j_call.result.kind # "panic"

(* C36: a token minted by the manager made for a configuration lives for   *)
(* the expiry of that configuration's jwt_config: expiresAt - issuedAt is  *)
(* the configured duration, whichever configuration the manager was made   *)
(* for                                                                     *)
TimeToLiveIsConfigured ==
    (Generated /\ j_call.result.kind = "ok") =>
        LET c == j_call.result.token.claims
        IN \A jwtConfig \in JWTConfigs :
               ManagerOf(jwtConfig) = j_call.m =>
                   c.ExpiresAt - c.IssuedAt = Duration(jwtConfig.Expiry)

(* C39: whatever a filter's Process returns, allow is true exactly when    *)
(* the error is nil                                                        *)
AllowIffNilError ==
    f_ret.returned => (f_ret.allow <=> ~f_ret.err.present)

WitnessRefusedWithError ==
    /\ f_filter.kind = "RequestFilter" /\ f_pc = "done"
    /\ f_up.code = StatusForbidden
    /\ f_ret.returned /\ ~f_ret.allow /\ f_ret.err.present
====
